---------------------------- MODULE Spec2Model ----------------------------
(***************************************************************************)
(* A model of resht's REST client (src/resht/client.py).                   *)
(*                                                                         *)
(* Python strings are sequences of one-character strings, so that every    *)
(* string operation of the code (split, find, lower, strip, join, quote,   *)
(* base64) is computed character by character.  Python dicts are           *)
(* sequences of <<key, value>> pairs with distinct keys, kept in insertion *)
(* order, as the interpreter keeps them.                                   *)
(***************************************************************************)
EXTENDS Integers, Sequences, FiniteSets, TLC

(***************************************************************************)
(* Bounds of the model.                                                    *)
(***************************************************************************)
\* longest base path and request path drawn
MaxPathLen == 3
\* most cookies the transport delivers to one client
MaxReceived == 3

(***************************************************************************)
(* Characters and the str methods the code uses.                           *)
(***************************************************************************)
\* the printable ASCII characters, code points 32..126, in order ("DQ" stands
\* for the double quote, code point 34, and "BT" for the backtick, 96)
Printable ==
  << " ", "!", "DQ", "#", "$", "%", "&", "'", "(", ")", "*", "+", ",", "-",
     ".", "/", "0", "1", "2", "3", "4", "5", "6", "7", "8", "9", ":", ";",
     "<", "=", ">", "?", "@", "A", "B", "C", "D", "E", "F", "G", "H", "I",
     "J", "K", "L", "M", "N", "O", "P", "Q", "R", "S", "T", "U", "V", "W",
     "X", "Y", "Z", "[", "\\", "]", "^", "_", "BT", "a", "b", "c", "d", "e",
     "f", "g", "h", "i", "j", "k", "l", "m", "n", "o", "p", "q", "r", "s",
     "t", "u", "v", "w", "x", "y", "z", "{", "|", "}", "~" >>

\* ord(c) and chr(n)
CodePoint ==
  [c \in {Printable[i] : i \in 1..Len(Printable)} |->
     31 + (CHOOSE i \in 1..Len(Printable) : Printable[i] = c)]
Ord(c) == CodePoint[c]
Chr(n) == Printable[n - 31]

Digits == {Chr(n) : n \in 48..57}
UpperCase == {Chr(n) : n \in 65..90}
LowerCase == {Chr(n) : n \in 97..122}
IsDigit(c) == c \in Digits
IsUpper(c) == c \in UpperCase
IsLower(c) == c \in LowerCase
\* the class \w of the re module, on ASCII
IsWord(c) == IsDigit(c) \/ IsUpper(c) \/ IsLower(c) \/ c = "_"

\* str.lower() and str.upper()
Lower(s) == [i \in 1..Len(s) |-> IF IsUpper(s[i]) THEN Chr(Ord(s[i]) + 32) ELSE s[i]]
Upper(s) == [i \in 1..Len(s) |-> IF IsLower(s[i]) THEN Chr(Ord(s[i]) - 32) ELSE s[i]]

\* s[i:] of Python, for a 1-based first index
From(s, i) == SubSeq(s, i, Len(s))

\* str.startswith / str.endswith
StartsWith(s, p) == Len(p) <= Len(s) /\ SubSeq(s, 1, Len(p)) = p
EndsWith(s, p) == Len(p) <= Len(s) /\ SubSeq(s, Len(s) - Len(p) + 1, Len(s)) = p

\* str.find(sub), 1-based; 0 when sub does not occur (Python's -1)
Find(s, sub) ==
  LET hits == {i \in 1..(Len(s) - Len(sub) + 1) : SubSeq(s, i, i + Len(sub) - 1) = sub}
  IN IF hits = {} THEN 0 ELSE CHOOSE i \in hits : \A j \in hits : i <= j

\* sub in s
Contains(s, sub) == Find(s, sub) > 0

\* str.split(sep, 1) when sep occurs: the text before and after the first sep
SplitOnce(s, sep) ==
  LET i == Find(s, sep)
  IN << SubSeq(s, 1, i - 1), From(s, i + Len(sep)) >>

\* str.split(sep)
RECURSIVE Split(_, _)
Split(s, sep) ==
  IF Find(s, sep) = 0 THEN << s >>
  ELSE << SplitOnce(s, sep)[1] >> \o Split(SplitOnce(s, sep)[2], sep)

\* sep.join(parts)
RECURSIVE Join(_, _)
Join(sep, parts) ==
  IF Len(parts) = 0 THEN << >>
  ELSE IF Len(parts) = 1 THEN parts[1]
  ELSE parts[1] \o sep \o Join(sep, Tail(parts))

\* str.lstrip(c), str.rstrip(c), str.strip(c) for a single character c
RECURSIVE Lstrip(_, _)
Lstrip(s, c) == IF Len(s) > 0 /\ s[1] = c THEN Lstrip(Tail(s), c) ELSE s
RECURSIVE Rstrip(_, _)
Rstrip(s, c) ==
  IF Len(s) > 0 /\ s[Len(s)] = c THEN Rstrip(SubSeq(s, 1, Len(s) - 1), c) ELSE s
Strip(s, c) == Rstrip(Lstrip(s, c), c)

\* str(n) for an integer n
RECURSIVE NatToStr(_)
NatToStr(n) ==
  IF n < 10 THEN << Chr(48 + n) >>
  ELSE NatToStr(n \div 10) \o << Chr(48 + (n % 10)) >>
IntToStr(n) == IF n < 0 THEN << "-" >> \o NatToStr(0 - n) ELSE NatToStr(n)

(***************************************************************************)
(* Python values that one variable holds at different times: the port of   *)
(* the base URL is None, a str (as parsed) or an int (as set by set_port). *)
(***************************************************************************)
PyNone == [n |-> 0, s |-> << >>, kind |-> "none"]
PyInt(n) == [n |-> n, s |-> << >>, kind |-> "int"]
PyStr(s) == [n |-> 0, s |-> s, kind |-> "str"]

\* truth value of a Python value
Truthy(val) ==
  CASE val.kind = "none" -> FALSE
    [] val.kind = "int" -> val.n # 0
    [] OTHER -> Len(val.s) > 0

\* str(v)
PyToStr(val) ==
  CASE val.kind = "none" -> << "N", "o", "n", "e" >>
    [] val.kind = "int" -> IntToStr(val.n)
    [] OTHER -> val.s

\* the value of a run of decimal digits
RECURSIVE DigitsValue(_)
DigitsValue(s) ==
  IF Len(s) = 0 THEN 0
  ELSE 10 * DigitsValue(SubSeq(s, 1, Len(s) - 1)) + (Ord(s[Len(s)]) - 48)

\* int(v): an int is itself; a str is an optional sign and decimal digits,
\* anything else raises ValueError (ok = FALSE)
PyIntOf(val) ==
  IF val.kind = "int" THEN [n |-> val.n, ok |-> TRUE]
  ELSE LET signed == Len(val.s) > 0 /\ val.s[1] \in {"+", "-"}
           digits == IF signed THEN Tail(val.s) ELSE val.s
       IN IF val.kind = "str" /\ Len(digits) > 0 /\ \A i \in 1..Len(digits) : IsDigit(digits[i])
          THEN [n |-> IF signed /\ val.s[1] = "-" THEN 0 - DigitsValue(digits)
                      ELSE DigitsValue(digits),
                ok |-> TRUE]
          ELSE [n |-> 0, ok |-> FALSE]

(***************************************************************************)
(* String literals of the code.                                            *)
(***************************************************************************)
S_http == << "h", "t", "t", "p" >>
S_https == << "h", "t", "t", "p", "s" >>
S_localhost == << "l", "o", "c", "a", "l", "h", "o", "s", "t" >>
S_schemeSep == << ":", "/", "/" >>

(***************************************************************************)
(* urllib.parse.urlparse('http://localhost/' + rest): the path, params,    *)
(* query and fragment of the text after the host.  The fragment is cut at  *)
(* the first '#', then the query at the first '?', then the params at the  *)
(* first ';' of the last path segment.                                     *)
(***************************************************************************)
\* the index of the last occurrence of character c in s, 0 when there is none
RFind(s, c) ==
  LET hits == {i \in 1..Len(s) : s[i] = c}
  IN IF hits = {} THEN 0 ELSE CHOOSE i \in hits : \A j \in hits : i >= j

\* the text before / after the first occurrence of sep (all of s / nothing
\* when sep does not occur)
Before(s, sep) == IF Find(s, sep) > 0 THEN SubSeq(s, 1, Find(s, sep) - 1) ELSE s
After(s, sep) == IF Find(s, sep) > 0 THEN From(s, Find(s, sep) + Len(sep)) ELSE << >>

\* the params are cut at the first ';' at or after the last '/' of the path
urlparse_parts(path, query, fragment) ==
  LET semi == Find(From(path, RFind(path, "/")), << ";" >>)
      cut == RFind(path, "/") + semi - 1
  IN [path |-> IF semi > 0 THEN SubSeq(path, 1, cut - 1) ELSE path,
      query |-> query,
      fragment |-> fragment,
      params |-> IF semi > 0 THEN From(path, cut + 1) ELSE << >>]

urlparse_query(url, fragment) ==
  urlparse_parts(Before(url, << "?" >>), After(url, << "?" >>), fragment)

urlparse(rest) ==
  urlparse_query(Before(<< "/" >> \o rest, << "#" >>), After(<< "/" >> \o rest, << "#" >>))

(***************************************************************************)
(* RestClient.parse_url, step by step: the scheme, the split at the first  *)
(* '/', the port in the host name, the default host name, and urlparse on  *)
(* what follows the host.                                                  *)
(***************************************************************************)
\* re.match('^\w+://', url): the number of word characters before '://',
\* 0 when the pattern does not match
SchemeLen(url) ==
  LET i == Find(url, S_schemeSep)
  IN IF i > 1 /\ \A j \in 1..(i - 1) : IsWord(url[j]) THEN i - 1 ELSE 0

parse_url_parts(scheme, hostname, port, parsed) ==
  [path |-> parsed.path,
   query |-> parsed.query,
   fragment |-> parsed.fragment,
   params |-> parsed.params,
   scheme |-> scheme,
   hostname |-> Lower(IF Len(hostname) = 0 THEN S_localhost ELSE hostname),
   port |-> port]

parse_url_host(scheme, hostname, rest) ==
  parse_url_parts(scheme,
                  Before(hostname, << ":" >>),
                  IF Find(hostname, << ":" >>) > 0 THEN PyStr(After(hostname, << ":" >>))
                  ELSE PyNone,
                  urlparse(rest))

parse_url_path(scheme, url) ==
  parse_url_host(scheme, Before(url, << "/" >>), After(url, << "/" >>))

parse_url(url) ==
  parse_url_path(IF SchemeLen(url) > 0 THEN Lower(Before(url, S_schemeSep)) ELSE S_http,
                 IF SchemeLen(url) > 0 THEN After(url, S_schemeSep) ELSE url)

(***************************************************************************)
(* RestClient.set_port and RestClient.set_base_url.  Each gives the        *)
(* client's base_url after the call and the exception the call raised.     *)
(* set_base_url stores the parsed URL before it sets the port.             *)
(***************************************************************************)
set_port(base, port) ==
  LET r == PyIntOf(port)
  IN IF ~r.ok THEN [base_url |-> base, raised |-> "ValueError"]
     ELSE IF r.n >= 0 /\ r.n <= 65535
          THEN [base_url |-> [base EXCEPT !.port = PyInt(r.n)], raised |-> "none"]
          ELSE [base_url |-> base, raised |-> "ValueError"]

\* the bug a default port that ignores the scheme would be
set_parsed_url_port80(old, url) ==
  IF url.scheme \notin {S_http, S_https}
  THEN [base_url |-> old, raised |-> "ValueError"]
  ELSE set_port(url, IF Truthy(url.port) THEN url.port ELSE PyInt(80))

\* lines 166-175, on the parsed URL
set_parsed_url(old, url) ==
  IF url.scheme \notin {S_http, S_https}
  THEN [base_url |-> old, raised |-> "ValueError"]
  ELSE set_port(url, IF Truthy(url.port) THEN url.port
                     ELSE IF url.scheme = S_https THEN PyInt(443)
                     ELSE PyInt(80))

set_base_url(old, input) ==
  IF Len(input) = 0 THEN [base_url |-> old, raised |-> "ValueError"]
  ELSE set_parsed_url(old, parse_url(input))

(***************************************************************************)
(* util.pretty_path: repeated slashes collapse to one, and a leading or    *)
(* trailing slash is added when the matching flag asks for it.             *)
(***************************************************************************)
RECURSIVE CollapseSlashes(_)
CollapseSlashes(s) ==
  IF Len(s) < 2 THEN s
  ELSE IF s[1] = "/" /\ s[2] = "/" THEN CollapseSlashes(Tail(s))
  ELSE << s[1] >> \o CollapseSlashes(Tail(s))

ForceLeading(path, force) ==
  IF force /\ ~StartsWith(path, << "/" >>) THEN << "/" >> \o path ELSE path

ForceTrailing(path, force) ==
  IF force /\ ~EndsWith(path, << "/" >>) THEN path \o << "/" >> ELSE path

pretty_path(path, forceLeading, forceTrailing) ==
  ForceTrailing(ForceLeading(CollapseSlashes(path), forceLeading), forceTrailing)

(***************************************************************************)
(* RestClient.merge_query, merge_url_query and build_url.  An absent       *)
(* (None) query is the empty string: the code only tests its truth value.  *)
(***************************************************************************)
\* one leading '?' dropped
DropQuestionMark(query) == IF StartsWith(query, << "?" >>) THEN Tail(query) ELSE query

\* the bug of putting the second query first would be
merge_query_reversed(query1, query2) ==
  IF Len(query2) = 0 THEN DropQuestionMark(query1)
  ELSE Join(<< "&" >>, << DropQuestionMark(query2), DropQuestionMark(query1) >>)

merge_query(query1, query2) ==
  IF Len(query2) = 0 THEN DropQuestionMark(query1)
  ELSE Join(<< "&" >>, << DropQuestionMark(query1), DropQuestionMark(query2) >>)

merge_url_query(url, query) ==
  Rstrip(Join(<< "?" >>,
              << Before(url, << "?" >>),
                 Strip(IF Find(url, << "?" >>) > 0
                       THEN merge_query(After(url, << "?" >>), query)
                       ELSE query, "?") >>), "?")

\* lines 108-112: a query is merged in when it is not empty
AddQuery(url, query) == IF Len(query) > 0 THEN merge_url_query(url, query) ELSE url

\* lines 99-106: scheme, host, the port unless it is 80 or 443, and the path
UrlHead(base, path) ==
  base.scheme \o S_schemeSep \o base.hostname
    \o (IF base.port = PyInt(80) \/ base.port = PyInt(443) THEN << >>
        ELSE << ":" >> \o PyToStr(base.port))
    \o path

\* the bug of joining the paths without normalising them would be
build_url_raw_path(base, path, query) ==
  AddQuery(AddQuery(UrlHead(base, Join(<< "/" >>, << << >>, base.path, path >>)),
                    base.query), query)

build_url(base, path, query) ==
  AddQuery(AddQuery(UrlHead(base, pretty_path(Join(<< "/" >>, << << >>, base.path, path >>),
                                              TRUE, FALSE)),
                    base.query), query)

(***************************************************************************)
(* Python values passed as body, query and header arguments: a tag and a   *)
(* payload.  A dict is a sequence of <<key, value>> pairs, a list a        *)
(* sequence of values.                                                     *)
(***************************************************************************)
VNone == [t |-> "none", v |-> << >>]
VStr(s) == [t |-> "str", v |-> s]
VBytes(s) == [t |-> "bytes", v |-> s]
VBool(b) == [t |-> "bool", v |-> b]
VInt(n) == [t |-> "int", v |-> n]
VList(items) == [t |-> "list", v |-> items]
VDict(pairs) == [t |-> "dict", v |-> pairs]

\* truth value: None, False, 0 and every empty str, bytes, list and dict are false
VTruthy(x) ==
  CASE x.t = "none" -> FALSE
    [] x.t = "bool" -> x.v
    [] x.t = "int" -> x.v # 0
    [] OTHER -> Len(x.v) > 0

\* str(x) of a scalar
VToStr(x) ==
  CASE x.t = "none" -> << "N", "o", "n", "e" >>
    [] x.t = "bool" -> IF x.v THEN << "T", "r", "u", "e" >> ELSE << "F", "a", "l", "s", "e" >>
    [] x.t = "int" -> IntToStr(x.v)
    [] OTHER -> x.v

\* dict operations: key in d, d[key], d[key] = value
DictHas(d, key) == \E i \in 1..Len(d) : d[i][1] = key
DictGet(d, key) == d[CHOOSE i \in 1..Len(d) : d[i][1] = key][2]
DictSet(d, key, value) ==
  IF DictHas(d, key)
  THEN [i \in 1..Len(d) |-> IF d[i][1] = key THEN << key, value >> ELSE d[i]]
  ELSE Append(d, << key, value >>)

(***************************************************************************)
(* urllib.parse.quote and quote_plus: every character but letters, digits, *)
(* '_', '.', '-', '~' and the safe ones becomes %XX.                       *)
(***************************************************************************)
HexDigits ==
  << "0", "1", "2", "3", "4", "5", "6", "7", "8", "9", "A", "B", "C", "D", "E", "F" >>

QuoteChar(c, safe) ==
  IF IsWord(c) \/ c \in {".", "-", "~"} \/ c \in safe THEN << c >>
  ELSE << "%", HexDigits[(Ord(c) \div 16) + 1], HexDigits[(Ord(c) % 16) + 1] >>

RECURSIVE QuoteWith(_, _)
QuoteWith(s, safe) ==
  IF Len(s) = 0 THEN << >> ELSE QuoteChar(s[1], safe) \o QuoteWith(Tail(s), safe)

quote(s) == QuoteWith(s, {"/"})

\* quote_plus: a space becomes '+', and '/' is not safe
quote_plus(s) ==
  LET q == QuoteWith(s, {" "}) IN [i \in 1..Len(q) |-> IF q[i] = " " THEN "+" ELSE q[i]]

(***************************************************************************)
(* RestClient.build_query                                                  *)
(***************************************************************************)
\* lines 432-436: the elements of a list, from index i on
RECURSIVE build_query_list(_, _, _)
build_query_list(items, newkey, i) ==
  IF i > Len(items) THEN << >>
  ELSE newkey \o quote(<< "[" >> \o IntToStr(i - 1) \o << "]" >>) \o << "=" >>
         \o quote(VToStr(items[i])) \o << "&" >>
         \o build_query_list(items, newkey, i + 1)

\* lines 426-428: the key of an entry under topkey
build_query_key(key, topkey) ==
  IF topkey # << >> THEN topkey \o quote(<< "[" >> \o key \o << "]" >>) ELSE quote(key)

\* lines 425-442: the entries of a dict, in order, each ending in '&'
RECURSIVE build_query_items(_, _)
build_query_items(pairs, topkey) ==
  IF Len(pairs) = 0 THEN << >>
  ELSE (CASE pairs[1][2].t = "dict" ->
               IF Len(pairs[1][2].v) = 0 THEN << >>
               ELSE build_query_items(pairs[1][2].v, build_query_key(pairs[1][1], topkey))
          [] pairs[1][2].t = "list" ->
               build_query_list(pairs[1][2].v, build_query_key(pairs[1][1], topkey), 1)
          [] pairs[1][2].t = "bool" ->
               build_query_key(pairs[1][1], topkey) \o << "=" >>
                 \o quote(IntToStr(IF pairs[1][2].v THEN 1 ELSE 0)) \o << "&" >>
          [] OTHER ->
               build_query_key(pairs[1][1], topkey) \o << "=" >>
                 \o quote(VToStr(pairs[1][2])) \o << "&" >>)
       \o build_query_items(Tail(pairs), topkey)

\* line 444: the last '&' is removed at the top level
DropLastAmp(result, topkey) ==
  IF Len(result) > 0 /\ topkey = << >> /\ result[Len(result)] = "&"
  THEN SubSeq(result, 1, Len(result) - 1)
  ELSE result

build_query(params, topkey) ==
  IF Len(params.v) = 0 \/ params.t # "dict" THEN << >>
  ELSE DropLastAmp(build_query_items(params.v, topkey), topkey)

(***************************************************************************)
(* RestClient.build_query_obj, with urllib.parse.parse_qs and unquote on   *)
(* the printable ASCII characters.                                         *)
(***************************************************************************)
HexValue(c) ==
  IF IsDigit(c) THEN Ord(c) - 48
  ELSE IF c \in {"A", "B", "C", "D", "E", "F"} THEN Ord(c) - 55
  ELSE IF c \in {"a", "b", "c", "d", "e", "f"} THEN Ord(c) - 87
  ELSE 0 - 1

\* %XX becomes the character with that code; anything else stays
RECURSIVE unquote(_)
unquote(s) ==
  IF Len(s) = 0 THEN << >>
  ELSE IF s[1] = "%" /\ Len(s) >= 3 /\ HexValue(s[2]) >= 0 /\ HexValue(s[3]) >= 0
          /\ 16 * HexValue(s[2]) + HexValue(s[3]) \in 32..126
  THEN << Chr(16 * HexValue(s[2]) + HexValue(s[3])) >> \o unquote(From(s, 4))
  ELSE << s[1] >> \o unquote(Tail(s))

\* parse_qs reads a name and a value with '+' for a space
UnquotePlus(s) == unquote([i \in 1..Len(s) |-> IF s[i] = "+" THEN " " ELSE s[i]])

\* parsed_result[name].append(value)
AppendValue(obj, name, value) ==
  IF DictHas(obj, name) THEN DictSet(obj, name, Append(DictGet(obj, name), value))
  ELSE Append(obj, << name, << value >> >>)

\* parse_qs: the name=value items between '&', empty items skipped, an item
\* without '=' read as a name with a blank value, blank values kept or not
RECURSIVE parse_qs_items(_, _, _)
parse_qs_items(items, keep_blank_values, obj) ==
  IF Len(items) = 0 THEN obj
  ELSE IF Len(items[1]) = 0
          \/ (~keep_blank_values /\ Len(After(items[1], << "=" >>)) = 0)
  THEN parse_qs_items(Tail(items), keep_blank_values, obj)
  ELSE parse_qs_items(Tail(items), keep_blank_values,
                      AppendValue(obj, UnquotePlus(Before(items[1], << "=" >>)),
                                  UnquotePlus(After(items[1], << "=" >>))))

parse_qs(query, keep_blank_values) ==
  parse_qs_items(Split(query, << "&" >>), keep_blank_values, << >>)

\* lines 406-412: a key with one value holds the value, else the list
RECURSIVE StrList(_)
StrList(values) ==
  IF Len(values) = 0 THEN << >> ELSE << VStr(values[1]) >> \o StrList(Tail(values))

RECURSIVE FlattenedPairs(_)
FlattenedPairs(obj) ==
  IF Len(obj) = 0 THEN << >>
  ELSE << << obj[1][1],
             IF Len(obj[1][2]) = 1 THEN VStr(obj[1][2][1]) ELSE VList(StrList(obj[1][2])) >> >>
         \o FlattenedPairs(Tail(obj))

Flattened(obj) == VDict(FlattenedPairs(obj))

\* the bug of dropping blank values would be
build_query_obj_no_blanks(query) == Flattened(parse_qs(query, FALSE))

\* keep_blanks is left at its default, True
build_query_obj(query) == Flattened(parse_qs(query, TRUE))

(***************************************************************************)
(* base64.b64encode of the bytes of an ASCII string.                       *)
(***************************************************************************)
B64Char(n) ==
  CASE n < 26 -> Chr(65 + n)
    [] n >= 26 /\ n < 52 -> Chr(97 + n - 26)
    [] n >= 52 /\ n < 62 -> Chr(48 + n - 52)
    [] n = 62 -> "+"
    [] OTHER -> "/"

RECURSIVE b64encode(_)
b64encode(s) ==
  IF Len(s) = 0 THEN << >>
  ELSE IF Len(s) = 1
  THEN << B64Char(Ord(s[1]) \div 4), B64Char((Ord(s[1]) % 4) * 16), "=", "=" >>
  ELSE IF Len(s) = 2
  THEN << B64Char(Ord(s[1]) \div 4),
          B64Char((Ord(s[1]) % 4) * 16 + (Ord(s[2]) \div 16)),
          B64Char((Ord(s[2]) % 16) * 4), "=" >>
  ELSE << B64Char(Ord(s[1]) \div 4),
          B64Char((Ord(s[1]) % 4) * 16 + (Ord(s[2]) \div 16)),
          B64Char((Ord(s[2]) % 16) * 4 + (Ord(s[3]) \div 64)),
          B64Char(Ord(s[3]) % 64) >> \o b64encode(SubSeq(s, 4, Len(s)))

(***************************************************************************)
(* RestClient.merge_headers and RestClient.get_header                      *)
(***************************************************************************)
\* every header of d stored into acc under its lower-cased name
RECURSIVE LowerInto(_, _)
LowerInto(acc, d) ==
  IF Len(d) = 0 THEN acc
  ELSE LowerInto(DictSet(acc, Lower(d[1][1]), d[1][2]), Tail(d))

merge_headers(base_headers, new_headers) ==
  LowerInto(LowerInto(<< >>, base_headers), new_headers)

\* the value of the first header whose name matches, ignoring case; None
\* (has = FALSE) when there is none
get_header(headers, header) ==
  LET hits == {i \in 1..Len(headers) : Lower(headers[i][1]) = Lower(header)}
  IN IF hits = {} THEN [value |-> << >>, has |-> FALSE]
     ELSE [value |-> headers[CHOOSE i \in hits : \A j \in hits : i <= j][2], has |-> TRUE]

(***************************************************************************)
(* json.dumps and json.loads, on objects, arrays, strings without escapes, *)
(* integers, true, false and null.                                         *)
(***************************************************************************)
S_true == << "t", "r", "u", "e" >>
S_false == << "f", "a", "l", "s", "e" >>
S_null == << "n", "u", "l", "l" >>

RECURSIVE json_dumps(_)
RECURSIVE json_dumps_items(_)
RECURSIVE json_dumps_pairs(_)
json_dumps_items(items) ==
  IF Len(items) = 0 THEN << >>
  ELSE json_dumps(items[1])
         \o (IF Len(items) > 1 THEN << ",", " " >> ELSE << >>)
         \o json_dumps_items(Tail(items))
json_dumps_pairs(pairs) ==
  IF Len(pairs) = 0 THEN << >>
  ELSE << "DQ" >> \o pairs[1][1] \o << "DQ", ":", " " >> \o json_dumps(pairs[1][2])
         \o (IF Len(pairs) > 1 THEN << ",", " " >> ELSE << >>)
         \o json_dumps_pairs(Tail(pairs))
json_dumps(x) ==
  CASE x.t = "none" -> S_null
    [] x.t = "bool" -> IF x.v THEN S_true ELSE S_false
    [] x.t = "int" -> IntToStr(x.v)
    [] x.t = "list" -> << "[" >> \o json_dumps_items(x.v) \o << "]" >>
    [] x.t = "dict" -> << "{" >> \o json_dumps_pairs(x.v) \o << "}" >>
    [] OTHER -> << "DQ" >> \o x.v \o << "DQ" >>

\* the first index from i on that holds no space (Len(s) + 1 when none does)
SkipSpaces(s, i) ==
  CHOOSE j \in i..(Len(s) + 1) :
    /\ (j <= Len(s) => s[j] # " ")
    /\ \A k \in i..(j - 1) : s[k] = " "

\* the first index from i on that holds no digit
SkipDigits(s, i) ==
  CHOOSE j \in i..(Len(s) + 1) :
    /\ (j <= Len(s) => ~IsDigit(s[j]))
    /\ \A k \in i..(j - 1) : IsDigit(s[k])

JsonFail == [ok |-> FALSE, v |-> VNone, next |-> 0]
JsonDone(value, next) == [ok |-> TRUE, v |-> value, next |-> next]

JsonLiteral(s, i, word, value) ==
  IF SubSeq(s, i, i + Len(word) - 1) = word THEN JsonDone(value, i + Len(word)) ELSE JsonFail

\* a string that opens at index i
JsonString(s, i) ==
  IF i > Len(s) \/ s[i] # "DQ" \/ Find(From(s, i + 1), << "DQ" >>) = 0 THEN JsonFail
  ELSE JsonDone(VStr(SubSeq(s, i + 1, i + Find(From(s, i + 1), << "DQ" >>) - 1)),
                i + Find(From(s, i + 1), << "DQ" >>) + 1)

\* an integer that starts at index i
JsonNumber(s, i) ==
  IF SkipDigits(s, IF s[i] = "-" THEN i + 1 ELSE i) = (IF s[i] = "-" THEN i + 1 ELSE i)
  THEN JsonFail
  ELSE JsonDone(VInt(PyIntOf(PyStr(SubSeq(s, i, SkipDigits(s, i + 1) - 1))).n),
                SkipDigits(s, i + 1))

RECURSIVE JsonValue(_, _)
RECURSIVE JsonMembers(_, _, _)
RECURSIVE JsonMemberValue(_, _, _, _)
RECURSIVE JsonMemberEnd(_, _, _, _, _)
RECURSIVE JsonElements(_, _, _)
RECURSIVE JsonElementEnd(_, _, _, _)

\* after a member's value: ',' and the next member, or '}'
JsonMemberEnd(s, acc, key, val, e) ==
  IF ~val.ok \/ e > Len(s) THEN JsonFail
  ELSE IF s[e] = "," THEN JsonMembers(s, e + 1, DictSet(acc, key, val.v))
  ELSE IF s[e] = "}" THEN JsonDone(VDict(DictSet(acc, key, val.v)), e + 1)
  ELSE JsonFail

\* after a member's key: ':' and the value
JsonMemberValue(s, acc, key, c) ==
  IF ~key.ok \/ c > Len(s) \/ s[c] # ":" THEN JsonFail
  ELSE JsonMemberEnd(s, acc, key.v.v, JsonValue(s, c + 1),
                     SkipSpaces(s, JsonValue(s, c + 1).next))

JsonMembers(s, i, acc) ==
  JsonMemberValue(s, acc, JsonString(s, SkipSpaces(s, i)),
                  SkipSpaces(s, JsonString(s, SkipSpaces(s, i)).next))

JsonElementEnd(s, acc, val, e) ==
  IF ~val.ok \/ e > Len(s) THEN JsonFail
  ELSE IF s[e] = "," THEN JsonElements(s, e + 1, Append(acc, val.v))
  ELSE IF s[e] = "]" THEN JsonDone(VList(Append(acc, val.v)), e + 1)
  ELSE JsonFail

JsonElements(s, i, acc) ==
  JsonElementEnd(s, acc, JsonValue(s, i), SkipSpaces(s, JsonValue(s, i).next))

JsonValue(s, i0) ==
  LET i == SkipSpaces(s, i0)
  IN IF i > Len(s) THEN JsonFail
     ELSE CASE s[i] = "{" ->
                 IF SkipSpaces(s, i + 1) <= Len(s) /\ s[SkipSpaces(s, i + 1)] = "}"
                 THEN JsonDone(VDict(<< >>), SkipSpaces(s, i + 1) + 1)
                 ELSE JsonMembers(s, i + 1, << >>)
            [] s[i] = "[" ->
                 IF SkipSpaces(s, i + 1) <= Len(s) /\ s[SkipSpaces(s, i + 1)] = "]"
                 THEN JsonDone(VList(<< >>), SkipSpaces(s, i + 1) + 1)
                 ELSE JsonElements(s, i + 1, << >>)
            [] s[i] = "DQ" -> JsonString(s, i)
            [] s[i] = "-" \/ IsDigit(s[i]) -> JsonNumber(s, i)
            [] s[i] = "t" -> JsonLiteral(s, i, S_true, VBool(TRUE))
            [] s[i] = "f" -> JsonLiteral(s, i, S_false, VBool(FALSE))
            [] s[i] = "n" -> JsonLiteral(s, i, S_null, VNone)
            [] OTHER -> JsonFail

\* the whole text must be one value
JsonWhole(s, r) ==
  IF r.ok /\ SkipSpaces(s, r.next) > Len(s) THEN [ok |-> TRUE, v |-> r.v]
  ELSE [ok |-> FALSE, v |-> VNone]

json_loads(s) == JsonWhole(s, JsonValue(s, 1))

(***************************************************************************)
(* More string literals of the code.                                       *)
(***************************************************************************)
S_get == << "g", "e", "t" >>
S_GET == << "G", "E", "T" >>
S_HEAD == << "H", "E", "A", "D" >>
S_POST == << "P", "O", "S", "T" >>
S_PUT == << "P", "U", "T" >>
S_PATCH == << "P", "A", "T", "C", "H" >>
S_DELETE == << "D", "E", "L", "E", "T", "E" >>
S_OPTIONS == << "O", "P", "T", "I", "O", "N", "S" >>
S_json ==
  << "a", "p", "p", "l", "i", "c", "a", "t", "i", "o", "n", "/", "j", "s", "o", "n" >>
S_form ==
  << "a", "p", "p", "l", "i", "c", "a", "t", "i", "o", "n", "/", "x", "-", "w", "w", "w",
     "-", "f", "o", "r", "m", "-", "u", "r", "l", "e", "n", "c", "o", "d", "e", "d" >>
S_accept == << "a", "c", "c", "e", "p", "t" >>
S_contentType == << "c", "o", "n", "t", "e", "n", "t", "-", "t", "y", "p", "e" >>
S_cookie == << "c", "o", "o", "k", "i", "e" >>
S_setCookie == << "s", "e", "t", "-", "c", "o", "o", "k", "i", "e" >>
S_authorization ==
  << "a", "u", "t", "h", "o", "r", "i", "z", "a", "t", "i", "o", "n" >>
S_Basic == << "B", "a", "s", "i", "c", " " >>
S_utf8 == << "u", "t", "f", "-", "8" >>

(***************************************************************************)
(* RestClient.request, lines 262-278: the arguments normalised and the URL *)
(***************************************************************************)
NormMethod(method) == Upper(IF Len(method) = 0 THEN S_get ELSE method)
NormPath(path) == IF Len(path) = 0 THEN << "/" >> ELSE path
NormBody(body) == IF body.t = "none" THEN VDict(<< >>) ELSE body

\* a list of strings is joined with '&', a dict goes through build_query
NormQuery(query) ==
  CASE query.t = "list" -> Join(<< "&" >>, [i \in 1..Len(query.v) |-> query.v[i].v])
    [] query.t = "dict" -> build_query(query, << >>)
    [] query.t = "str" -> query.v
    [] OTHER -> << >>

\* the bug of leaving the body of a GET out of the query would be
RequestQuery_no_body(method, body, query) == query

\* lines 275-276: the body of a GET or HEAD is merged into the query
RequestQuery(method, body, query) ==
  IF method \in {S_GET, S_HEAD} /\ VTruthy(body)
  THEN merge_query(build_query(body, << >>), query)
  ELSE query

(***************************************************************************)
(* Lines 279-310: the request headers.                                     *)
(***************************************************************************)
DefaultHeaders ==
  << << << "c", "o", "n", "t", "e", "n", "t", "-", "T", "y", "p", "e" >>, S_json >>,
     << S_accept, S_json >> >>

\* lines 288-290: name=value of every cookie of the cache, joined with '&'
CookieHeader(jar) ==
  Join(<< "&" >>, [i \in 1..Len(jar) |-> Join(<< "=" >>, << jar[i][1], jar[i][2] >>)])

WithCookies(headers, jar) ==
  IF Len(jar) > 0 THEN merge_headers(headers, << << S_cookie, CookieHeader(jar) >> >>)
  ELSE headers

\* the bug of preferring the client's credential to the call's would be
WithAuth_default_first(headers, call_auth, default_auth) ==
  IF Len(call_auth) > 0 \/ Len(default_auth) > 0
  THEN merge_headers(headers,
         << << S_authorization,
               S_Basic \o b64encode(IF Len(default_auth) > 0 THEN default_auth
                                    ELSE call_auth) >> >>)
  ELSE headers

\* lines 296-304
WithAuth(headers, call_auth, default_auth) ==
  IF Len(call_auth) > 0 \/ Len(default_auth) > 0
  THEN merge_headers(headers,
         << << S_authorization,
               S_Basic \o b64encode(IF Len(call_auth) > 0 THEN call_auth
                                    ELSE default_auth) >> >>)
  ELSE headers

\* lines 305-310
WithCaller(headers, caller) ==
  IF Len(caller) > 0 THEN merge_headers(headers, caller) ELSE headers

RequestHeaders(self, a) ==
  WithCaller(WithAuth(WithCookies(merge_headers(DefaultHeaders, << >>), self.cookies),
                      a.basic_auth, self.basic_auth),
             a.headers)

(***************************************************************************)
(* Lines 312-330: the request body.                                        *)
(***************************************************************************)
Encoded(data) == [raised |-> "none", data |-> data, hasData |-> TRUE]
NotEncoded(raised) == [raised |-> raised, data |-> VNone, hasData |-> FALSE]

\* urllib.parse.urlencode of a dict; anything else raises TypeError
urlencode(body) ==
  IF body.t # "dict" THEN NotEncoded("TypeError")
  ELSE Encoded(VStr(Join(<< "&" >>,
         [i \in 1..Len(body.v) |->
            quote_plus(body.v[i][1]) \o << "=" >> \o quote_plus(VToStr(body.v[i][2]))])))

EncodeByType(body, content_type) ==
  IF ~content_type.has THEN NotEncoded("AttributeError")
  ELSE IF StartsWith(content_type.value, S_json) THEN Encoded(VBytes(json_dumps(body)))
  ELSE IF content_type.value = S_form THEN urlencode(body)
  ELSE Encoded(body)

EncodeBody(method, body, headers, pre_formatted_body) ==
  IF method \in {S_GET, S_HEAD} THEN NotEncoded("none")
  ELSE IF pre_formatted_body THEN Encoded(body)
  ELSE EncodeByType(body, get_header(headers, S_contentType))

\* line 345: urllib.request.Request(url, **request_args) is given the headers
\* and, unless the method is GET or HEAD, the data, and no method: the method
\* on the wire is then Request.get_method()'s, POST with data and GET without
Sent(method, url, headers, enc) ==
  [url |-> url,
   raised |-> enc.raised,
   headers |-> headers,
   method |-> method,
   data |-> enc.data,
   hasData |-> enc.hasData,
   wire_method |-> IF enc.hasData THEN S_POST ELSE S_GET]

Prepared(method, url, headers, body, pre_formatted_body) ==
  Sent(method, url, headers, EncodeBody(method, body, headers, pre_formatted_body))

Prepare(self, method, a) ==
  Prepared(method,
           build_url(self.base_url, NormPath(a.path),
                     RequestQuery(method, NormBody(a.body), NormQuery(a.query))),
           RequestHeaders(self, a), NormBody(a.body), a.pre_formatted_body)

(***************************************************************************)
(* Lines 358-363: the cookies of the response.  http.cookies.BaseCookie    *)
(* reads name=value items separated by ';'; a reserved name is an          *)
(* attribute of the cookie before it; a text it cannot read gives nothing. *)
(***************************************************************************)
ReservedCookieKeys ==
  { << "p", "a", "t", "h" >>, << "d", "o", "m", "a", "i", "n" >>,
    << "e", "x", "p", "i", "r", "e", "s" >>, << "m", "a", "x", "-", "a", "g", "e" >>,
    << "s", "e", "c", "u", "r", "e" >>, << "h", "t", "t", "p", "o", "n", "l", "y" >>,
    << "v", "e", "r", "s", "i", "o", "n" >>, << "c", "o", "m", "m", "e", "n", "t" >>,
    << "s", "a", "m", "e", "s", "i", "t", "e" >> }
CookieFlags ==
  { << "s", "e", "c", "u", "r", "e" >>, << "h", "t", "t", "p", "o", "n", "l", "y" >> }

RECURSIVE ParseCookieItems(_, _, _)
ParseCookieItems(items, acc, seen) ==
  IF Len(items) = 0 \/ Len(Strip(items[1], " ")) = 0 THEN acc
  ELSE IF Lower(Before(Strip(items[1], " "), << "=" >>)) \in ReservedCookieKeys
  THEN IF ~seen
          \/ (~Contains(items[1], << "=" >>)
              /\ Lower(Strip(items[1], " ")) \notin CookieFlags)
       THEN << >>
       ELSE ParseCookieItems(Tail(items), acc, seen)
  ELSE IF Contains(items[1], << "=" >>)
  THEN ParseCookieItems(Tail(items),
                        Append(acc, << Before(Strip(items[1], " "), << "=" >>),
                                       After(Strip(items[1], " "), << "=" >>) >>),
                        TRUE)
  ELSE << >>

BaseCookie(text) == ParseCookieItems(Split(text, << ";" >>), << >>, FALSE)

\* lines 362-363: every parsed cookie stored under its name
RECURSIVE StoreParsed(_, _)
StoreParsed(jar, parsed) ==
  IF Len(parsed) = 0 THEN jar
  ELSE StoreParsed(DictSet(jar, parsed[1][1], parsed[1][2]), Tail(parsed))

\* the bug of keeping the first value received for a name would be
RECURSIVE StoreCookies_keep_first(_, _)
StoreCookies_keep_first(jar, headers) ==
  IF Len(headers) = 0 THEN jar
  ELSE IF Lower(headers[1][1]) = S_setCookie
  THEN StoreCookies_keep_first(
         StoreParsed(jar, SelectSeq(BaseCookie(headers[1][2]),
                                    LAMBDA c : ~DictHas(jar, c[1]))),
         Tail(headers))
  ELSE StoreCookies_keep_first(jar, Tail(headers))

\* the bug of starting the cache afresh at every Set-Cookie header would be
RECURSIVE StoreCookies_replacing(_, _)
StoreCookies_replacing(jar, headers) ==
  IF Len(headers) = 0 THEN jar
  ELSE IF Lower(headers[1][1]) = S_setCookie
  THEN StoreCookies_replacing(StoreParsed(<< >>, BaseCookie(headers[1][2])), Tail(headers))
  ELSE StoreCookies_replacing(jar, Tail(headers))

\* lines 359-363
RECURSIVE StoreCookies(_, _)
StoreCookies(jar, headers) ==
  IF Len(headers) = 0 THEN jar
  ELSE IF Lower(headers[1][1]) = S_setCookie
  THEN StoreCookies(StoreParsed(jar, BaseCookie(headers[1][2])), Tail(headers))
  ELSE StoreCookies(jar, Tail(headers))

(***************************************************************************)
(* Lines 365-379: the response body decoded.                               *)
(***************************************************************************)
\* bytes.decode(codec): LookupError for a codec Python does not know
KnownCodecs == { S_utf8, << "a", "s", "c", "i", "i" >> }
BytesDecode(body, codec) ==
  IF Lower(codec) \in KnownCodecs THEN [raised |-> "none", v |-> VStr(body)]
  ELSE [raised |-> "LookupError", v |-> VNone]

\* lines 369-372: the charset named after the first ';' of the content type
DecodeCharset(body, charset) ==
  IF Contains(charset, << "=" >>) THEN BytesDecode(body, Split(charset, << "=" >>)[2])
  ELSE [raised |-> "none", v |-> VBytes(body)]

DecodeData(body, content_type) ==
  IF Len(body) > 0 /\ content_type.has /\ Contains(content_type.value, << ";" >>)
  THEN DecodeCharset(body, Strip(Split(content_type.value, << ";" >>)[2], " "))
  ELSE [raised |-> "none", v |-> VBytes(body)]

\* lines 373-379
DecodeJson(data, content_type) ==
  IF content_type.has /\ StartsWith(content_type.value, S_json)
  THEN json_loads(data.v)
  ELSE [ok |-> TRUE, v |-> data]

(***************************************************************************)
(* Lines 381-396: the status classified, and what request gives.           *)
(***************************************************************************)
\* the bug of treating redirects as errors would be
StatusError_from_300(status) ==
  IF status < 200 \/ status >= 300
  THEN (IF status >= 500 THEN "ServerHttpError"
        ELSE IF status >= 400 THEN "UserHttpError"
        ELSE "HttpError")
  ELSE "none"

StatusError(status) ==
  IF status < 200 \/ status >= 400
  THEN (IF status >= 500 THEN "ServerHttpError"
        ELSE IF status >= 400 THEN "UserHttpError"
        ELSE "HttpError")
  ELSE "none"

NoResult == [kind |-> "nothing"]
ResponseOf(status, decoded, data) ==
  [kind |-> "response", data |-> data, status |-> status, decoded |-> decoded]

\* what a call of request leaves: the cookie cache, the transport call it
\* made, whether a response came back, the exception raised, and the value
\* returned or carried by the exception
Outcome(jar, sent, delivered, raised, result) ==
  [raised |-> raised, result |-> result, cookies |-> jar, sent |-> sent,
   delivered |-> delivered]

Classified(jar, sent, status, full, data, decoded) ==
  IF ~decoded.ok THEN Outcome(jar, sent, TRUE, "ValueError", NoResult)
  ELSE IF StatusError(status) # "none" \/ full
  THEN Outcome(jar, sent, TRUE, StatusError(status), ResponseOf(status, decoded.v, data))
  ELSE Outcome(jar, sent, TRUE, "none", [kind |-> "decoded", decoded |-> decoded.v])

\* the bug of classifying the status before the body is decoded would be
Decoded_status_first(jar, sent, status, full, data, content_type) ==
  IF StatusError(status) # "none" THEN Outcome(jar, sent, TRUE, StatusError(status), NoResult)
  ELSE IF data.raised # "none" THEN Outcome(jar, sent, TRUE, data.raised, NoResult)
  ELSE Classified(jar, sent, status, full, data.v, DecodeJson(data.v, content_type))

Decoded(jar, sent, status, full, data, content_type) ==
  IF data.raised # "none" THEN Outcome(jar, sent, TRUE, data.raised, NoResult)
  ELSE Classified(jar, sent, status, full, data.v, DecodeJson(data.v, content_type))

\* lines 345-349: urlopen refuses data that is a str (TypeError), gives a
\* response (an HTTPError is one too) or raises a transport error, which
\* request lets through
Exchange(self, a, resp, sent) ==
  IF sent.raised # "none" THEN Outcome(self.cookies, sent, FALSE, sent.raised, NoResult)
  ELSE IF sent.hasData /\ sent.data.t = "str"
  THEN Outcome(self.cookies, sent, FALSE, "TypeError", NoResult)
  ELSE IF resp.error THEN Outcome(self.cookies, sent, FALSE, "URLError", NoResult)
  ELSE Decoded(StoreCookies(self.cookies, resp.headers), sent, resp.status, a.full,
               DecodeData(resp.body, get_header(resp.headers, S_contentType)),
               get_header(resp.headers, S_contentType))

request(self, method, a, resp) == Exchange(self, a, resp, Prepare(self, NormMethod(method), a))

\* lines 236-247: the arguments of a call of request
Args(path, body, query, headers, full, call_auth, pre_formatted_body) ==
  [path |-> path, query |-> query, headers |-> headers, body |-> body, basic_auth |-> call_auth,
   pre_formatted_body |-> pre_formatted_body, full |-> full]

(***************************************************************************)
(* Shell.parse_path: a path, with its relative references, against the     *)
(* current path.                                                           *)
(***************************************************************************)
S_dash == << "-" >>
S_dot == << "." >>
S_dotdot == << ".", "." >>

PathResult(path) == [path |-> path, raised |-> "none"]
OutOfBounds == [path |-> << >>, raised |-> "Exception"]

\* lines 667-677: the names of the path in turn; walked is cur_dirs, or
\* << S_dotdot >> once a '..' found nothing to pop
RECURSIVE WalkDirs(_, _)
WalkDirs(dirs, cur_dirs) ==
  IF Len(dirs) = 0 THEN cur_dirs
  ELSE IF dirs[1] \in { << >>, S_dot } THEN WalkDirs(Tail(dirs), cur_dirs)
  ELSE IF dirs[1] = S_dotdot
  THEN IF Len(cur_dirs) = 0 THEN << S_dotdot >>
       ELSE WalkDirs(Tail(dirs), SubSeq(cur_dirs, 1, Len(cur_dirs) - 1))
  ELSE WalkDirs(Tail(dirs), Append(cur_dirs, dirs[1]))

\* lines 678-682
FinalPath(trailing, final_path) ==
  PathResult(IF trailing /\ ~EndsWith(final_path, << "/" >>) THEN final_path \o << "/" >>
             ELSE final_path)

Walked(trailing, walked) ==
  IF walked = << S_dotdot >> THEN OutOfBounds
  ELSE FinalPath(trailing, pretty_path(Join(<< "/" >>, walked), TRUE, FALSE))

\* lines 659-666
ParsePretty(cwd, path) ==
  Walked(EndsWith(path, << "/" >>),
         WalkDirs(Split(path, << "/" >>),
                  IF StartsWith(path, << "/" >>) THEN << << "/" >> >>
                  ELSE Split(cwd, << "/" >>)))

\* the bug of putting the path after the current one as it is would be
parse_path_appended(environ, path) ==
  IF path = S_dash THEN PathResult(environ.last_cwd)
  ELSE IF Len(path) = 0 THEN PathResult(environ.cwd)
  ELSE PathResult(environ.cwd \o << "/" >> \o path)

parse_path(environ, path) ==
  IF path = S_dash THEN PathResult(environ.last_cwd)
  ELSE IF Len(path) = 0 THEN PathResult(environ.cwd)
  ELSE ParsePretty(environ.cwd, pretty_path(path, FALSE, FALSE))

(***************************************************************************)
(* Shell.parse_param: one parameter of the command line, merged into the   *)
(* parameters read so far.  data_store holds the variables in memory.      *)
(***************************************************************************)
ParamsResult(params) == [params |-> params, raised |-> "none"]
ParamsError(raised, params) == [params |-> params, raised |-> raised]

\* lines 634-645: params[a][b]...[key] = value, with a mapping made for
\* every name that is missing; what is met on the way that is no mapping
\* takes no item (TypeError)
RECURSIVE SetItem(_, _, _)
SetItem(param_ptr, p_parts, value) ==
  IF param_ptr.t # "dict" THEN [ok |-> FALSE, ptr |-> VNone]
  ELSE IF Len(p_parts) = 1
  THEN [ok |-> TRUE, ptr |-> VDict(DictSet(param_ptr.v, p_parts[1], value))]
  ELSE LET inner == SetItem(IF DictHas(param_ptr.v, p_parts[1])
                            THEN DictGet(param_ptr.v, p_parts[1]) ELSE VDict(<< >>),
                            Tail(p_parts), value)
       IN IF inner.ok
          THEN [ok |-> TRUE, ptr |-> VDict(DictSet(param_ptr.v, p_parts[1], inner.ptr))]
          ELSE inner

Assigned(params, assigned) ==
  IF assigned.ok THEN ParamsResult(assigned.ptr) ELSE ParamsError("TypeError", params)

\* the bug of taking a dotted name as one key would be
AssignParam_one_key(params, param, value) ==
  ParamsResult(VDict(DictSet(params.v, param, value)))

\* lines 632-646
AssignParam(params, param, value) == Assigned(params, SetItem(params, Split(param, S_dot), value))

\* line 625: self.decode(value)
AssignDecoded(params, param, decoded) ==
  IF decoded.ok THEN AssignParam(params, param, decoded.v)
  ELSE ParamsError("JSONDecodeError", params)

\* lines 619-631: a name alone, name=value, name:=json and name+=
AssignValue(data_store, params, param, value) ==
  IF EndsWith(param, << ":" >>) THEN AssignDecoded(params, Rstrip(param, ":"), json_loads(value))
  ELSE IF EndsWith(param, << "+" >>)
  THEN IF DictHas(data_store, Rstrip(param, "+"))
       THEN AssignParam(params, Rstrip(param, "+"), DictGet(data_store, Rstrip(param, "+")))
       ELSE ParamsError("Exception", params)
  ELSE AssignParam(params, param, VStr(value))

parse_param(data_store, str, params) ==
  IF Find(str, << "=" >>) = 0
  THEN AssignParam(params, Lstrip(str, "^"), VBool(~StartsWith(str, << "^" >>)))
  ELSE AssignValue(data_store, params, SplitOnce(str, << "=" >>)[1], SplitOnce(str, << "=" >>)[2])

S_head == << "h", "e", "a", "d" >>
S_post == << "p", "o", "s", "t" >>
S_put == << "p", "u", "t" >>
S_patch == << "p", "a", "t", "c", "h" >>
S_delete == << "d", "e", "l", "e", "t", "e" >>
S_options == << "o", "p", "t", "i", "o", "n", "s" >>
S_help == << "h", "e", "l", "p" >>
S_flag(c) == << "-", c >>
S_long(word) == << "-", "-" >> \o word

(***************************************************************************)
(* Shell.parse_args: the tokens of a command line read into the arguments  *)
(* of a command.  Absent values (None) are VNone; self holds env,          *)
(* data_store and main_args.                                               *)
(***************************************************************************)
http_methods == {S_head, S_get, S_post, S_put, S_patch, S_delete, S_options}

\* a shell without aliases: the verb stays as typed
method_aliases_kept(verb) == verb

\* lines 59-64
method_aliases(verb) ==
  CASE verb = << "d", "e", "l" >> -> S_delete
    [] verb \in { << "o", "p", "t", "s" >>, << "o", "p", "t" >> } -> S_options
    [] verb = << "?" >> -> S_help
    [] OTHER -> verb

\* lines 197-219
InitialArgs(main_args) ==
  [path |-> VNone, query |-> << >>, url |-> main_args.url,
   headers |-> << >>, basic_auth |-> VNone, data |-> << >>, verb |-> VNone,
   api_args |-> VDict(<< >>), cmd_args |-> << >>, color |-> main_args.color, exclude |-> << >>,
   extract |-> << >>, formatted |-> main_args.formatted, help |-> FALSE, insecure |-> FALSE,
   invert_color |-> FALSE, redir_type |-> VNone, shell |-> FALSE, stdout_redir |-> VNone,
   verbose |-> FALSE]

\* lines 224-232: a token of '-' and two or more letters becomes one flag
\* for each letter; the indices run over the length the line had at first
Condensed(part) == Len(part) > 2 /\ part[1] = "-" /\ part[2] \notin {"-", "+", "="}

RECURSIVE ExpandCondensed(_, _, _)
ExpandCondensed(parts, i, n) ==
  IF i > n THEN parts
  ELSE IF Condensed(parts[i])
  THEN ExpandCondensed(SubSeq(parts, 1, i - 1)
                         \o [k \in 1..(Len(parts[i]) - 1) |-> << "-", parts[i][k + 1] >>]
                         \o SubSeq(parts, i + 1, Len(parts)),
                       i + 1, n)
  ELSE ExpandCondensed(parts, i + 1, n)

\* what one token of the scan gives: the arguments and the index of the
\* token read last, or an exception
Scanned(args, i) == [i |-> i, raised |-> "none", args |-> args]
ScanError(raised) == [i |-> 0, raised |-> raised, args |-> << >>]

\* a flag with a value: the value is the next token
WithValue(parts, i, scanned) == IF i + 1 > Len(parts) THEN ScanError("Exception") ELSE scanned

\* lines 239-256: output redirection
Redirect(parts, i, args, part) ==
  IF part = << ">" >>
  THEN WithValue(parts, i,
                 Scanned([args EXCEPT !.redir_type = VStr(<< "w" >>),
                                      !.stdout_redir = VStr(parts[i + 1])], i + 1))
  ELSE IF StartsWith(part, << ">", ">" >>)
  THEN Scanned([args EXCEPT !.stdout_redir = VStr(From(part, 3)),
                            !.redir_type = VStr(<< "a" >>)], i)
  ELSE Scanned([args EXCEPT !.stdout_redir = VStr(From(part, 2)),
                            !.redir_type = VStr(<< "w" >>)], i)

\* lines 311-326: -j takes a JSON mapping and merges it into api_args
RECURSIVE UpdateDict(_, _)
UpdateDict(d, pairs) ==
  IF Len(pairs) = 0 THEN d
  ELSE UpdateDict(DictSet(d, pairs[1][1], pairs[1][2]), Tail(pairs))

JsonArgs(args, i, decoded) ==
  IF decoded.ok /\ decoded.v.t = "dict"
  THEN Scanned([args EXCEPT !.api_args = VDict(UpdateDict(args.api_args.v, decoded.v.v))], i)
  ELSE ScanError("JSONException")

\* lines 257-350: the flags
Flag(parts, i, args, part) ==
  CASE part \in {S_flag("B"), S_long(<< "b", "a", "s", "i", "c" >>)} ->
         WithValue(parts, i,
                   IF ~Contains(parts[i + 1], << ":" >>) THEN ScanError("Exception")
                   ELSE Scanned([args EXCEPT !.basic_auth = VStr(parts[i + 1])], i + 1))
    \* -F ends in an exception whatever its value is (line 276)
    [] part \in {S_flag("F"), S_long(<< "f", "i", "l", "e" >>)} -> ScanError("Exception")
    [] part \in {S_flag("Q"), S_long(<< "q", "u", "e", "r", "y" >>)} ->
         WithValue(parts, i,
                   IF ~Contains(parts[i + 1], << "=" >>) \/ Contains(parts[i + 1], << "&" >>)
                   THEN ScanError("Exception")
                   ELSE Scanned([args EXCEPT !.query = Append(@, parts[i + 1])], i + 1))
    [] part \in {S_flag("i"), S_long(<< "i", "n", "v", "e", "r", "t" >>)} ->
         Scanned([args EXCEPT !.invert_color = TRUE], i)
    [] part = S_long(<< "i", "n", "s", "e", "c", "u", "r", "e" >>) ->
         Scanned([args EXCEPT !.insecure = TRUE], i)
    [] part \in {S_flag("c"), S_long(<< "c", "o", "l", "o", "r" >>)} ->
         Scanned([args EXCEPT !.color = TRUE], i)
    [] part \in {S_flag("C"), S_long(<< "n", "o", "-", "c", "o", "l", "o", "r" >>)} ->
         Scanned([args EXCEPT !.color = FALSE], i)
    [] part \in {S_flag("v"), S_long(<< "v", "e", "r", "b", "o", "s", "e" >>)} ->
         Scanned([args EXCEPT !.verbose = TRUE], i)
    [] part \in {S_flag("f"), S_long(<< "f", "o", "r", "m" >>)} ->
         Scanned([args EXCEPT !.headers = DictSet(@, S_contentType, S_form)], i)
    [] part \in {S_flag("h"), S_long(S_help)} -> Scanned([args EXCEPT !.help = TRUE], i)
    [] part \in {S_flag("H"), S_long(<< "h", "e", "a", "d", "e", "r" >>)} ->
         WithValue(parts, i,
                   IF ~Contains(parts[i + 1], << ":", " " >>) THEN ScanError("Exception")
                   ELSE Scanned([args EXCEPT !.headers =
                                   DictSet(@, Lower(SplitOnce(parts[i + 1], << ":", " " >>)[1]),
                                           SplitOnce(parts[i + 1], << ":", " " >>)[2])], i + 1))
    [] part \in {S_flag("s"), S_long(<< "s", "h", "e", "l", "l" >>)} ->
         Scanned([args EXCEPT !.shell = TRUE], i)
    [] part \in {S_flag("j"), S_long(<< "j", "s", "o", "n" >>)} ->
         WithValue(parts, i, JsonArgs(args, i + 1, json_loads(parts[i + 1])))
    [] part \in {S_flag("r"), S_long(<< "r", "a", "w" >>)} ->
         Scanned([args EXCEPT !.formatted = FALSE], i)
    [] part \in {S_flag("u"), S_long(<< "u", "r", "l" >>)} ->
         WithValue(parts, i, Scanned([args EXCEPT !.url = parts[i + 1]], i + 1))
    [] part \in {S_flag("d"), S_long(<< "d", "a", "t", "a" >>)} ->
         WithValue(parts, i,
                   IF ~Contains(parts[i + 1], << "=" >>) THEN ScanError("ValueError")
                   ELSE Scanned([args EXCEPT !.data = Append(@, SplitOnce(parts[i + 1], << "=" >>))],
                                i + 1))
    [] part \in {S_flag("x"), S_long(<< "e", "x", "t", "r", "a", "c", "t" >>)} ->
         WithValue(parts, i, Scanned([args EXCEPT !.extract = Append(@, parts[i + 1])], i + 1))
    [] OTHER ->
         WithValue(parts, i, Scanned([args EXCEPT !.exclude = Append(@, parts[i + 1])], i + 1))

Flags ==
  {S_flag(c) : c \in {"B", "F", "Q", "i", "c", "C", "v", "f", "h", "H", "s", "j", "r", "u", "d",
                      "x", "X"}}
  \cup {S_long(w) : w \in { << "b", "a", "s", "i", "c" >>, << "f", "i", "l", "e" >>,
                           << "q", "u", "e", "r", "y" >>, << "i", "n", "v", "e", "r", "t" >>,
                           << "i", "n", "s", "e", "c", "u", "r", "e" >>,
                           << "c", "o", "l", "o", "r" >>,
                           << "n", "o", "-", "c", "o", "l", "o", "r" >>,
                           << "v", "e", "r", "b", "o", "s", "e" >>, << "f", "o", "r", "m" >>,
                           S_help, << "h", "e", "a", "d", "e", "r" >>,
                           << "s", "h", "e", "l", "l" >>, << "j", "s", "o", "n" >>,
                           << "r", "a", "w" >>, << "u", "r", "l" >>, << "d", "a", "t", "a" >>,
                           << "e", "x", "t", "r", "a", "c", "t" >>,
                           << "e", "x", "c", "l", "u", "d", "e" >> }}

\* lines 353-355
WithPath(args, i, resolved) ==
  IF resolved.raised # "none" THEN ScanError(resolved.raised)
  ELSE Scanned([args EXCEPT !.path = VStr(pretty_path(resolved.path, FALSE, FALSE))], i)

\* lines 362-364
WithParam(args, i, merged) ==
  IF merged.raised # "none" THEN ScanError(merged.raised)
  ELSE Scanned([args EXCEPT !.api_args = merged.params], i)

\* lines 351-366: a token that is no flag
Bare(self, i, args, part) ==
  IF args.verb.t = "none"
  THEN Scanned([args EXCEPT !.verb = VStr(method_aliases(Lower(part)))], i)
  ELSE IF args.verb.v \in http_methods /\ args.path.t = "none"
  THEN WithPath(args, i, parse_path(self.env, part))
  ELSE IF args.verb.v \in http_methods
  THEN WithParam(args, i, parse_param(self.data_store, part, args.api_args))
  ELSE Scanned([args EXCEPT !.cmd_args = Append(@, part)], i)

\* lines 235-367: one token
ScanPart(self, parts, i, args, part) ==
  IF Len(part) = 0 THEN Scanned(args, i)
  ELSE IF part[1] = ">" THEN Redirect(parts, i, args, part)
  ELSE IF part \in Flags THEN Flag(parts, i, args, part)
  ELSE Bare(self, i, args, part)

\* lines 233-368: the tokens in turn, from the one after the token read last
RECURSIVE Scan(_, _, _)
Scan(self, parts, scanned) ==
  IF scanned.raised # "none" \/ scanned.i + 1 > Len(parts) THEN scanned
  ELSE Scan(self, parts,
            ScanPart(self, parts, scanned.i + 1, scanned.args, parts[scanned.i + 1]))

parse_args(self, expr) ==
  Scan(self, ExpandCondensed(expr, 1, Len(expr)), Scanned(InitialArgs(self.main_args), 0))

(***************************************************************************)
(* Shell.env with key 'cwd' and a value: the path before is remembered.    *)
(***************************************************************************)
\* the bug of forgetting the path before would be
SetEnvCwd_forgetful(environ, value) == [environ EXCEPT !.cwd = value]

\* lines 579-592
SetEnvCwd(environ, value) == [environ EXCEPT !.last_cwd = environ.cwd, !.cwd = value]

(***************************************************************************)
(* Shell.run_cmd: the internal commands.  'debug' and 'sh' hand over to    *)
(* pdb and to a subprocess and are no commands of the model; 'data' is     *)
(* the listing, without a '-=' parameter.                                  *)
(***************************************************************************)
S_set == << "s", "e", "t" >>
S_env == << "e", "n", "v" >>
S_data == << "d", "a", "t", "a" >>
S_cd == << "c", "d" >>
S_config == << "c", "o", "n", "f", "i", "g" >>
S_quit == << "q", "u", "i", "t" >>

\* what run_cmd leaves: the environment, and "none" when it returned True
Ran(environ) == [raised |-> "none", env |-> environ]
RunError(environ, raised) == [raised |-> raised, env |-> environ]

DictDel(d, key) == SelectSeq(d, LAMBDA pair : pair[1] # key)

\* lines 721-728: name, '+=name' out of memory into the vars, '-=name' out
EnvAdded(data_store, env_vars, name, add) ==
  IF add /\ DictHas(data_store, name) THEN DictSet(env_vars, name, DictGet(data_store, name))
  ELSE env_vars

EnvRemoved(env_vars, name, remove) ==
  IF remove /\ DictHas(env_vars, name) THEN DictDel(env_vars, name) ELSE env_vars

\* lines 717-720: '+=' is looked for after '-=' was taken off
EnvNamed(data_store, env_vars, param, remove) ==
  IF StartsWith(param, << "+", "=" >>)
  THEN EnvRemoved(EnvAdded(data_store, env_vars, From(param, 3), TRUE), From(param, 3), remove)
  ELSE EnvRemoved(env_vars, param, remove)

\* lines 714-716
EnvParam(data_store, env_vars, param) ==
  IF StartsWith(param, << "-", "=" >>) THEN EnvNamed(data_store, env_vars, From(param, 3), TRUE)
  ELSE EnvNamed(data_store, env_vars, param, FALSE)

\* lines 713-733: the parameters in turn
RECURSIVE EnvParams(_, _, _)
EnvParams(data_store, env_vars, params) ==
  IF Len(params) = 0 THEN env_vars
  ELSE EnvParams(data_store, EnvParam(data_store, env_vars, params[1]), Tail(params))

\* lines 692-695: parse_param may fail; when it does not, pair.keys()[0]
\* fails, since the keys of a dict cannot be indexed
SetParam(environ, pair) ==
  RunError(environ, IF pair.raised # "none" THEN pair.raised ELSE "TypeError")

\* lines 756-760
ChangeDir(environ, resolved) ==
  IF resolved.raised # "none" THEN RunError(environ, resolved.raised)
  ELSE Ran(SetEnvCwd(environ, resolved.path))

\* line 765: Response is no name of the module, so the call raises NameError
Quit(environ) == RunError(environ, "NameError")

run_cmd(self, cmd, params) ==
  CASE cmd = S_set ->
         IF Len(params) = 0 THEN Ran(self.env)
         ELSE SetParam(self.env, parse_param(self.data_store, params[1], VDict(<< >>)))
    [] cmd = S_env ->
         Ran([self.env EXCEPT !.vars = EnvParams(self.data_store, @, params)])
    [] cmd = S_data -> Ran(self.env)
    [] cmd = S_cd ->
         ChangeDir(self.env, parse_path(self.env, IF Len(params) > 0 THEN params[1] ELSE << >>))
    [] cmd = S_config -> Ran(self.env)
    [] cmd = S_quit -> Quit(self.env)
    [] cmd = S_help -> Ran(self.env)
    [] OTHER -> RunError(self.env, "Exception")

(***************************************************************************)
(* Shell.parse_cmd, for commands without redirection and without           *)
(* -x, -X and -d: the line is split, scanned, and run as a request of the  *)
(* client or as an internal command.                                       *)
(***************************************************************************)
\* line 221, shlex.split: the words between blanks; a quote that nothing
\* closes is a ValueError.  The lines of the model hold no backslash, no
\* '#' and no quote but one left open
shlex_split(text) ==
  IF \E i \in 1..Len(text) : text[i] \in {"DQ", "'"}
  THEN [parts |-> << >>, raised |-> "ValueError"]
  ELSE [parts |-> SelectSeq(Split(text, << " " >>), LAMBDA part : Len(part) > 0),
        raised |-> "none"]

HttpErrors == {"HttpError", "UserHttpError", "ServerHttpError"}

NoRequest == [kind |-> "nothing"]

\* what parse_cmd leaves: the environment, the cookie cache of the client,
\* what it returned ("true", "answer" or "none") or raised, and the
\* outcome of the request it made
CmdOutcome(environ, jar, returned, raised, made) ==
  [raised |-> raised, cookies |-> jar, request |-> made, env |-> environ, returned |-> returned]

\* lines 482-495: after the response is printed, print_meta reads
\* answer.meta, which neither the client's Response nor None has
Printed(environ, jar, print_meta, returned, made) ==
  IF print_meta THEN CmdOutcome(environ, jar, "none", "AttributeError", made)
  ELSE CmdOutcome(environ, jar, returned, "none", made)

\* lines 419-429: HttpError and socket.error (URLError is one) are caught,
\* anything else leaves parse_cmd
Answered(environ, print_meta, out) ==
  IF out.raised \in HttpErrors \cup {"none", "URLError"}
  THEN Printed(environ, out.cookies, print_meta,
               IF out.raised = "URLError" THEN "none" ELSE "answer", out)
  ELSE CmdOutcome(environ, out.cookies, "none", out.raised, out)

\* line 405: args['api_args'].update(self.env('vars'))
BodyParams(api_args, env_vars) == UpdateDict(api_args, env_vars)

\* lines 406-415
RequestArgs(args, environ, path) ==
  Args(path, VDict(BodyParams(args.api_args.v, environ.vars)),
       VList([i \in 1..Len(args.query) |-> VStr(args.query[i])]), args.headers, TRUE,
       IF args.basic_auth.t = "none" THEN << >> ELSE args.basic_auth.v, FALSE)

Requested(self, client, print_meta, args, resolved, resp) ==
  IF resolved.raised # "none"
  THEN CmdOutcome(self.env, client.cookies, "none", resolved.raised, NoRequest)
  ELSE Answered(self.env, print_meta,
                request(client, args.verb.v, RequestArgs(args, self.env, resolved.path), resp))

\* lines 439-448: run_cmd's True is returned as it is; an exception is
\* printed as a syntax error
Internal(client, print_meta, ran) ==
  IF ran.raised = "none" THEN CmdOutcome(ran.env, client.cookies, "true", "none", NoRequest)
  ELSE Printed(ran.env, client.cookies, print_meta, "none", NoRequest)

\* lines 388-441
Parsed(self, client, print_meta, resp, scanned) ==
  IF scanned.raised # "none"
  THEN CmdOutcome(self.env, client.cookies, "none", scanned.raised, NoRequest)
  ELSE IF scanned.args.verb.t = "none" \/ Len(scanned.args.verb.v) = 0
  THEN CmdOutcome(self.env, client.cookies, "true", "none", NoRequest)
  ELSE IF scanned.args.verb.v \in http_methods
  THEN Requested(self, client, print_meta, scanned.args,
                 parse_path(self.env, IF scanned.args.path.t = "none" THEN << >>
                                      ELSE scanned.args.path.v), resp)
  ELSE Internal(client, print_meta, run_cmd(self, scanned.args.verb.v, scanned.args.cmd_args))

SplitLine(self, client, print_meta, resp, split) ==
  IF split.raised # "none"
  THEN CmdOutcome(self.env, client.cookies, "none", split.raised, NoRequest)
  ELSE Parsed(self, client, print_meta, resp, parse_args(self, split.parts))

parse_cmd(self, client, cli_cmd, print_meta, resp) ==
  SplitLine(self, client, print_meta, resp, shlex_split(cli_cmd))

(***************************************************************************)
(* Shell.start, lines 112-147: the loop reads on while parse_cmd returns;  *)
(* a ValueError asks for a restart, whose call names last_resp_meta, a     *)
(* name that is not defined, so a NameError leaves start; any other        *)
(* exception, the end of the input included, goes on to stop().            *)
(***************************************************************************)
AfterCmd(raised) ==
  IF raised = "none" THEN "reading"
  ELSE IF raised = "ValueError" THEN "raised"
  ELSE "stopped"

(***************************************************************************)
(* The state of one RestClient, and the most recent call made on it with   *)
(* its arguments and outcome.                                              *)
(***************************************************************************)
VARIABLES
  base_url,     \* self.base_url: the parsed base URL
  cookies,      \* self.cookies: the session cookie cache, name -> value
  basic_auth,   \* self.basic_auth: the default credential ("" when unset)
  received,     \* every cookie the transport has delivered, name -> last value
  env,          \* Shell._env: the current path 'cwd', the one before, 'last_cwd',
                \* and 'vars', the parameters added to each API call
  session,      \* where Shell.start is: "reading" at its prompt, "stopped" after
                \* stop(), "raised" once an exception left it
  last          \* the most recent call: its arguments and what it gave

vars == << base_url, cookies, basic_auth, received, env, session, last >>

(***************************************************************************)
(* Inputs of set_base_url, kept as the pieces they are written from.       *)
(***************************************************************************)
SeqsUpTo(A, n) == UNION {[1..k -> A] : k \in 0..n}

UrlSchemes ==
  { [name |-> "none", text |-> << >>],
    [name |-> "http", text |-> S_http \o S_schemeSep],
    [name |-> "https", text |-> S_https \o S_schemeSep],
    [name |-> "https", text |-> Upper(S_https) \o S_schemeSep] }

FtpScheme == [name |-> "ftp", text |-> << "f", "t", "p" >> \o S_schemeSep]

NoPort == [has |-> "none", text |-> << >>, num |-> 0]

UrlPorts ==
  { NoPort,
    [has |-> "empty", text |-> << ":" >>, num |-> 0],
    [has |-> "num", text |-> << ":", "0" >>, num |-> 0],
    [has |-> "num", text |-> << ":", "1" >>, num |-> 1],
    [has |-> "num", text |-> << ":", "8", "0" >>, num |-> 80],
    [has |-> "num", text |-> << ":", "4", "4", "3" >>, num |-> 443],
    [has |-> "num", text |-> << ":", "6", "5", "5", "3", "5" >>, num |-> 65535],
    [has |-> "num", text |-> << ":", "6", "5", "5", "3", "6" >>, num |-> 65536],
    [has |-> "num", text |-> << ":", "-", "1" >>, num |-> 0 - 1],
    [has |-> "junk", text |-> << ":", "a", "b" >>, num |-> 0] }

S_foo == << "f", "o", "o" >>
UrlHosts == { << >>, S_foo }
UrlRests == { << >>, << "/", "v", "1" >> }

UrlInputs ==
  {[rest |-> r, scheme |-> s, port |-> p, host |-> h] :
      s \in UrlSchemes, h \in UrlHosts, p \in UrlPorts, r \in UrlRests}
  \cup {[rest |-> << >>, scheme |-> FtpScheme, port |-> p, host |-> S_foo] :
      p \in {NoPort, [has |-> "num", text |-> << ":", "8", "0" >>, num |-> 80]}}

\* the string handed to set_base_url
Render(u) == u.scheme.text \o u.host \o u.port.text \o u.rest

\* base URLs and request paths with every arrangement of slashes
PathRests == { << >> } \cup {<< "/" >> \o t : t \in SeqsUpTo({"/", "a"}, MaxPathLen - 1)}
PathBaseInputs ==
  {[rest |-> r, scheme |-> CHOOSE s \in UrlSchemes : s.name = "none",
    port |-> NoPort, host |-> S_foo] : r \in PathRests}
ReqPaths == SeqsUpTo({"/", "a", "?"}, MaxPathLen)

(***************************************************************************)
(* RestClient.__init__ with its default arguments: base_url 'localhost',   *)
(* no credential, an empty cookie cache.                                   *)
(***************************************************************************)
Init ==
  /\ base_url = set_base_url(PyNone, S_localhost).base_url
  /\ cookies = << >>
  /\ basic_auth = << >>
  /\ received = << >>
  /\ env = [cwd |-> << "/" >>, last_cwd |-> << "/" >>, vars |-> << >>]
  /\ session = "reading"
  /\ last = [op |-> "init"]

(***************************************************************************)
(* Calls of set_base_url and build_url.                                    *)
(***************************************************************************)
\* the client after set_base_url(Render(u)) gave r
SetBaseUrlDone(u, r) ==
  /\ base_url' = r.base_url
  /\ last' = [raised |-> r.raised, input |-> u, op |-> "set_base_url"]
  /\ UNCHANGED << cookies, basic_auth, received, env, session >>

SetBaseUrl(inputs) ==
  \E u \in inputs : SetBaseUrlDone(u, set_base_url(base_url, Render(u)))

BuildUrl(paths, queries) ==
  \E path \in paths, query \in queries :
    /\ last' = [path |-> path, query |-> query, url |-> build_url(base_url, path, query),
                base |-> base_url, op |-> "build_url"]
    /\ UNCHANGED << base_url, cookies, basic_auth, received, env, session >>

\* base URLs over every scheme and port, with a few request paths
NextUrl ==
  \/ SetBaseUrl(UrlInputs)
  \/ BuildUrl({ << >>, << "/", "x" >> }, { << >> })

SpecUrl == Init /\ [][NextUrl]_vars

\* one scheme and port, with base and request paths of every slash pattern
NextPath ==
  \/ SetBaseUrl(PathBaseInputs)
  \/ BuildUrl(ReqPaths, { << >> })

SpecPath == Init /\ [][NextPath]_vars

\* the lower-cased names of a header list
LowerNames(headers) == {Lower(headers[i][1]) : i \in 1..Len(headers)}

(***************************************************************************)
(* Replies of the transport.                                               *)
(***************************************************************************)
\* a reply as the server wrote it: the status, the content type, the body
\* text and the value it encodes (ok = FALSE when it encodes none), and the
\* cookies it sets, each << name, value, attributes >>
ReplyInput(status, content_type, text, ok, value, set_cookies) ==
  [ok |-> ok, value |-> value, content_type |-> content_type, text |-> text,
   status |-> status, error |-> FALSE, set_cookies |-> set_cookies]

NoReply ==
  [ok |-> FALSE, value |-> VNone, content_type |-> << >>, text |-> << >>, status |-> 0,
   error |-> TRUE, set_cookies |-> << >>]

S_ContentType == << "C", "o", "n", "t", "e", "n", "t", "-", "T", "y", "p", "e" >>
S_SetCookie == << "S", "e", "t", "-", "C", "o", "o", "k", "i", "e" >>
S_jsonUtf8 == S_json \o << ";", " ", "c", "h", "a", "r", "s", "e", "t", "=" >> \o S_utf8
S_textPlain == << "t", "e", "x", "t", "/", "p", "l", "a", "i", "n" >>

\* the response urlopen hands to request for a reply
Response(r) ==
  [headers |-> << << S_ContentType, r.content_type >> >>
               \o [i \in 1..Len(r.set_cookies) |->
                     << S_SetCookie,
                        r.set_cookies[i][1] \o << "=" >> \o r.set_cookies[i][2]
                          \o r.set_cookies[i][3] >>], body |-> r.text, status |-> r.status,
   error |-> r.error]

JsonReply(status, value, set_cookies) ==
  ReplyInput(status, S_jsonUtf8, json_dumps(value), TRUE, value, set_cookies)

OkReply == JsonReply(200, VDict(<< >>), << >>)

(***************************************************************************)
(* Calls of set_basic_auth, request and the verb methods.                  *)
(***************************************************************************)
Self == [base_url |-> base_url, cookies |-> cookies, basic_auth |-> basic_auth]

\* lines 177-178
SetBasicAuth(auths) ==
  \E auth \in auths :
    /\ basic_auth' = auth
    /\ last' = [input |-> auth, op |-> "set_basic_auth"]
    /\ UNCHANGED << base_url, cookies, received, env, session >>

\* the client after the call named via, which ran request(method, a) and
\* was answered with r, gave out
RequestDone(via, method, a, r, out) ==
  /\ Len(received) + Len(r.set_cookies) <= MaxReceived
  /\ cookies' = out.cookies
  /\ received' = IF out.delivered
                 THEN received \o [i \in 1..Len(r.set_cookies) |->
                                     << r.set_cookies[i][1], r.set_cookies[i][2] >>]
                 ELSE received
  /\ last' = [method |-> method, jar |-> cookies, args |-> a, out |-> out, received |-> received,
              op |-> "request", auth |-> basic_auth, via |-> via, reply |-> r]
  /\ UNCHANGED << base_url, basic_auth, env, session >>

Call(via, method, a, r) == RequestDone(via, method, a, r, request(Self, method, a, Response(r)))

\* lines 190-235
head(args, replies) == \E a \in args, r \in replies : Call(Lower(S_HEAD), S_GET, a, r)
get(args, replies) == \E a \in args, r \in replies : Call(Lower(S_GET), S_GET, a, r)
post(args, replies) == \E a \in args, r \in replies : Call(Lower(S_POST), S_POST, a, r)
patch(args, replies) == \E a \in args, r \in replies : Call(Lower(S_PATCH), S_PATCH, a, r)
put(args, replies) == \E a \in args, r \in replies : Call(Lower(S_PUT), S_PUT, a, r)
options(args, replies) ==
  \E a \in args, r \in replies : Call(Lower(S_OPTIONS), S_OPTIONS, a, r)
delete(args, replies) == \E a \in args, r \in replies : Call(Lower(S_DELETE), S_DELETE, a, r)

\* request called directly with a method of the caller
CallRequest(methods, args, replies) ==
  \E m \in methods, a \in args, r \in replies :
    Call(<< "r", "e", "q", "u", "e", "s", "t" >>, m, a, r)

(***************************************************************************)
(* The verb methods, over bodies and queries of every shape.               *)
(***************************************************************************)
DefaultArgs == Args(<< "/" >>, VNone, VNone, << >>, FALSE, << >>, FALSE)

VerbPaths == { << "/" >>, << "/", "a", "?", "x", "=", "1" >> }
VerbBodies ==
  { VNone,
    VDict(<< >>),
    VDict(<< << << "a" >>, VStr(<< "1" >>) >> >>),
    VDict(<< << << "a" >>, VStr(<< "1" >>) >>, << << "b" >>, VBool(TRUE) >> >>),
    VDict(<< << << "a" >>, VDict(<< << << "b" >>, VStr(<< "2" >>) >> >>) >> >>),
    VDict(<< << << "a", " ", "b" >>, VList(<< VStr(<< "x" >>), VInt(2) >>) >>,
             << << "c" >>, VStr(<< >>) >> >>) }
VerbQueries ==
  { VNone,
    VStr(<< "q", "=", "1" >>),
    VStr(<< "?", "q", "=", "1" >>),
    VList(<< VStr(<< "q", "=", "1" >>), VStr(<< "r", "=", "2" >>) >>),
    VDict(<< << << "q" >>, VStr(<< "1" >>) >> >>) }
VerbArgs ==
  {Args(p, b, q, << >>, FALSE, << >>, FALSE) :
     p \in VerbPaths, b \in VerbBodies, q \in VerbQueries}
ListQueryArgs == {a \in VerbArgs : a.query.t = "list"}
PlainArgs == {a \in VerbArgs : a.query.t = "none" /\ a.path = << "/" >>}
VerbMethods == { << >>, << "H", "e", "a", "d" >>, Lower(S_PUT) }

NextVerbs ==
  \/ head(VerbArgs, {OkReply})
  \/ get(VerbArgs, {OkReply})
  \/ post(PlainArgs, {OkReply})
  \/ patch(PlainArgs, {OkReply})
  \/ put(PlainArgs, {OkReply})
  \/ options(PlainArgs, {OkReply})
  \/ delete(PlainArgs, {OkReply})
  \/ CallRequest(VerbMethods, ListQueryArgs, {OkReply})

SpecVerbs == Init /\ [][NextVerbs]_vars

(***************************************************************************)
(* Replies of every status class, with bodies that decode and that do not. *)
(***************************************************************************)
Statuses == {100, 199, 200, 299, 300, 301, 399, 400, 404, 499, 500, 503, 599}

S_oops == << "o", "o", "p", "s" >>
ErrorPayload == VDict(<< << << "e", "r", "r" >>, VStr(S_oops) >> >>)

StatusReplies ==
  {JsonReply(st, ErrorPayload, << >>) : st \in Statuses}
  \cup {ReplyInput(st, S_json, json_dumps(ErrorPayload), TRUE, ErrorPayload, << >>) :
          st \in {200, 404}}
  \cup {ReplyInput(st, S_textPlain, S_oops, TRUE, VBytes(S_oops), << >>) : st \in Statuses}
  \cup {ReplyInput(st, S_jsonUtf8, S_oops, FALSE, VNone, << >>) : st \in Statuses}
  \cup {ReplyInput(st, S_json \o << ";", "c", "h", "a", "r", "s", "e", "t", "=", "x" >>,
                   json_dumps(ErrorPayload), FALSE, VNone, << >>) : st \in {200, 404}}
  \cup {NoReply}

StatusArgs == {Args(<< "/" >>, VNone, VNone, << >>, full, << >>, FALSE) : full \in BOOLEAN}

NextStatus ==
  \/ get(StatusArgs, StatusReplies)
  \/ post(StatusArgs, StatusReplies)

SpecStatus == Init /\ [][NextStatus]_vars

(***************************************************************************)
(* Requests with credentials, cookies and headers of the caller.           *)
(***************************************************************************)
S_fooBar == << "f", "o", "o", ":", "b", "a", "r" >>
S_uPw == << "u", ":", "p", "w" >>
Credentials == { << >>, S_fooBar, S_uPw }

S_XFoo == << "X", "-", "F", "o", "o" >>
CallerHeaders ==
  { << >>,
    << << << "A", "u", "t", "h", "o", "r", "i", "z", "a", "t", "i", "o", "n" >>,
          << "t", "o", "k" >> >> >>,
    << << S_XFoo, << "1" >> >> >>,
    << << S_XFoo, << "1" >> >>, << Lower(S_XFoo), << "2" >> >> >>,
    << << Upper(S_contentType), S_textPlain >> >>,
    << << << "C", "o", "o", "k", "i", "e" >>, << "c", "=", "9" >> >> >> }

HeaderArgs ==
  {Args(<< "/" >>, VNone, VNone, h, FALSE, c, FALSE) : h \in CallerHeaders, c \in Credentials}

CookieA1 == << << "a" >>, << "1" >>, << >> >>
HeaderReplies == { OkReply, JsonReply(200, VDict(<< >>), << CookieA1 >>) }

NextHeaders ==
  \/ SetBasicAuth(Credentials)
  \/ get(HeaderArgs, HeaderReplies)
  \/ post({a \in HeaderArgs : Len(a.headers) = 1}, {OkReply})

SpecHeaders == Init /\ [][NextHeaders]_vars

(***************************************************************************)
(* Replies that set cookies, on successful and on failed requests.         *)
(***************************************************************************)
S_pathAttr == << ";", " ", "P", "a", "t", "h", "=", "/" >>
CookieSets ==
  { << >>,
    << CookieA1 >>,
    << << << "a" >>, << "2" >>, S_pathAttr >> >>,
    << << << "b" >>, << "1" >>, << ";", " ", "S", "e", "c", "u", "r", "e" >> >> >>,
    << << << "b" >>, << "2" >>, << >> >>, CookieA1 >> }

CookieReplies ==
  {JsonReply(st, VDict(<< >>), c) : st \in {200, 404}, c \in CookieSets}
  \cup {ReplyInput(500, S_jsonUtf8, S_oops, FALSE, VNone, << CookieA1 >>), NoReply}

CookieArgs == {a \in HeaderArgs : Len(a.basic_auth) = 0 /\ LowerNames(a.headers) \subseteq {S_cookie}}

NextCookies ==
  \/ get(CookieArgs, CookieReplies)
  \/ post({DefaultArgs}, {r \in CookieReplies : r.status # 200})

SpecCookies == Init /\ [][NextCookies]_vars

(***************************************************************************)
(* Requests whose base URL, path and arguments all carry a query.          *)
(***************************************************************************)
QueryBaseInputs ==
  {[rest |-> r, scheme |-> CHOOSE s \in UrlSchemes : s.name = "none",
    port |-> NoPort, host |-> S_foo] :
     r \in { << >>, << "/", "?", "f", "=", "1" >>,
             << "/", "v", "1", "?", "f", "=", "1", "&", "g", "=", "2" >> }}

QueryPaths == { << >>, << "/", "a" >>, << "/", "a", "?", "x", "=", "1" >>, << "/", "a", "?" >> }
QueryArgs ==
  {Args(p, VNone, q, << >>, FALSE, << >>, FALSE) :
     p \in QueryPaths, q \in VerbQueries \cup { VStr(<< >>) }}
\* the empty query written as '?'
MarkArgs == {Args(p, VNone, VStr(<< "?" >>), << >>, FALSE, << >>, FALSE) : p \in QueryPaths}

NextQuery ==
  \/ SetBaseUrl(QueryBaseInputs)
  \/ get(QueryArgs, {OkReply})
  \/ get(MarkArgs, {OkReply})
  \/ post({a \in QueryArgs : a.query.t = "str"}, {OkReply})

SpecQuery == Init /\ [][NextQuery]_vars

(***************************************************************************)
(* merge_query on its own: two queries, and three merged left to right.    *)
(***************************************************************************)
MergeQueries ==
  { << >>, << "?" >>, << "a", "=", "1" >>, << "?", "a", "=", "1" >>,
    << "a", "=", "2" >>, << "b", "=", "1", "&", "a", "=", "1" >>,
    << "?", "c", "=", "3" >> }

\* merge_query(query1) and merge_query(query1, query2); query2 = None when
\* it is left out
MergeQuery(queries) ==
  \E query1 \in queries, query2 \in queries, absent \in BOOLEAN :
    /\ last' = [query1 |-> query1, query2 |-> IF absent THEN << >> ELSE query2, out |-> merge_query(query1, IF absent THEN << >> ELSE query2),
                op |-> "merge_query",
                absent |-> absent]
    /\ UNCHANGED << base_url, cookies, basic_auth, received, env, session >>

\* merge_query(merge_query(a, b), c)
MergeQueryTwice(queries) ==
  \E a \in queries, b \in queries, c \in queries :
    /\ last' = [c |-> c, b |-> b, a |-> a, out |-> merge_query(merge_query(a, b), c),
                op |-> "merge_query_twice"]
    /\ UNCHANGED << base_url, cookies, basic_auth, received, env, session >>

NextMerge ==
  \/ MergeQuery(MergeQueries)
  \/ MergeQueryTwice(MergeQueries \ { << "?" >>, << "a", "=", "2" >> })

SpecMerge == Init /\ [][NextMerge]_vars

(***************************************************************************)
(* build_query on mappings that hold booleans at every place a value can   *)
(* stand.  An entry is written as its key, the place and the boolean.      *)
(***************************************************************************)
ParamPlaces == {"top", "nested", "nested twice", "list", "list after str", "str"}

ParamValue(place, b) ==
  CASE place = "top" -> VBool(b)
    [] place = "nested" -> VDict(<< << << "k" >>, VBool(b) >> >>)
    [] place = "nested twice" ->
         VDict(<< << << "k" >>, VDict(<< << << "k" >>, VBool(b) >> >>) >> >>)
    [] place = "list" -> VList(<< VBool(b) >>)
    [] place = "list after str" -> VList(<< VStr(<< "x" >>), VBool(b) >>)
    [] OTHER -> VStr(<< "x" >>)

\* the mapping handed to build_query
ParamsOf(entries) ==
  VDict([i \in 1..Len(entries) |->
           << entries[i].key, ParamValue(entries[i].place, entries[i].b) >>])

ParamEntries(keys) == [key : keys, place : ParamPlaces, b : BOOLEAN]

BuildQueryDone(entries, out) ==
  /\ last' = [out |-> out, op |-> "build_query", entries |-> entries]
  /\ UNCHANGED << base_url, cookies, basic_auth, received, env, session >>

\* build_query(params) for a mapping of one or two entries
BuildQuery ==
  \E e1 \in ParamEntries({ << "a" >> }), e2 \in ParamEntries({ << "b" >> }), two \in BOOLEAN :
    BuildQueryDone(IF two THEN << e1, e2 >> ELSE << e1 >>,
                   build_query(ParamsOf(IF two THEN << e1, e2 >> ELSE << e1 >>), << >>))

NextBuildQuery == BuildQuery

SpecBuildQuery == Init /\ [][NextBuildQuery]_vars

(***************************************************************************)
(* build_query and build_query_obj in turn, on flat mappings of strings.   *)
(***************************************************************************)
FlatKeys == { << "a" >>, << "a", " ", "b" >>, << >>, << "k", "[", "0", "]" >>, << "a", "+" >> }
FlatValues ==
  { << >>, << "1" >>, << "x", " ", "y" >>, << "a", "&", "b", "=", "c" >>,
    << "%", "4", "1" >>, << "+" >> }

\* the mapping with these keys and values, in this order
FlatMapping(keys, values) == VDict([i \in 1..Len(keys) |-> << keys[i], VStr(values[i]) >>])

RoundTripDone(keys, values, out) ==
  /\ last' = [values |-> values, out |-> out, op |-> "round_trip", keys |-> keys]
  /\ UNCHANGED << base_url, cookies, basic_auth, received, env, session >>

\* build_query_obj(build_query(m)) for a mapping of one entry
RoundTripOne ==
  \E k \in FlatKeys, v \in FlatValues :
    RoundTripDone(<< k >>, << v >>,
                  build_query_obj(build_query(FlatMapping(<< k >>, << v >>), << >>)))

\* the same for a mapping of two entries
RoundTripTwo ==
  \E k \in FlatKeys \ { << "a" >> }, v1 \in FlatValues, v2 \in FlatValues \ { << "+" >> } :
    RoundTripDone(<< k, << "a" >> >>, << v1, v2 >>,
                  build_query_obj(build_query(FlatMapping(<< k, << "a" >> >>, << v1, v2 >>),
                                              << >>)))

NextRoundTrip ==
  \/ RoundTripOne
  \/ RoundTripTwo

SpecRoundTrip == Init /\ [][NextRoundTrip]_vars

(***************************************************************************)
(* Requests with a body, under content types of every kind.                *)
(***************************************************************************)
S_bar == << "b", "a", "r" >>
S_raw == << "r", "a", "w" >>
S_charset == << ";", " ", "c", "h", "a", "r", "s", "e", "t", "=" >> \o S_utf8

\* test_request_body and test_req_content_types send {'foo': 'bar'}
FooBar == VDict(<< << S_foo, VStr(S_bar) >> >>)
SpaceAmp == VDict(<< << << "a", " ", "b" >>, VStr(<< "c", "&", "d" >>) >> >>)

ContentTypeHeaders ==
  { << >>,
    << << S_contentType, S_json >> >>,
    << << S_contentType, S_jsonUtf8 >> >>,
    << << S_contentType, S_form >> >>,
    << << S_ContentType, S_form >> >>,
    << << Upper(S_contentType), S_textPlain >> >>,
    << << S_contentType, S_form \o S_charset >> >>,
    << << S_contentType, << "A" >> \o Tail(S_json) >> >>,
    << << S_XFoo, S_bar >> >> }

EncodingArgs ==
  {Args(<< "/" >>, body, VNone, headers, FALSE, << >>, pre_formatted_body) :
     body \in {FooBar, SpaceAmp}, headers \in ContentTypeHeaders,
     pre_formatted_body \in BOOLEAN}

\* a body the caller encoded, and no body at all
RawArgs ==
  {Args(<< "/" >>, VBytes(S_raw), VNone, << << S_contentType, S_textPlain >> >>, FALSE, << >>,
        pre_formatted_body) : pre_formatted_body \in BOOLEAN}
  \cup {Args(<< "/" >>, VBytes(S_raw), VNone, << >>, FALSE, << >>, TRUE)}

NoBodyArgs ==
  {Args(<< "/" >>, VNone, VNone, headers, FALSE, << >>, FALSE) :
     headers \in { << >>, << << S_contentType, S_form >> >> }}

NextEncoding ==
  \/ post(EncodingArgs, {OkReply})
  \/ put(EncodingArgs, {OkReply})
  \/ patch(EncodingArgs, {OkReply})
  \/ options(RawArgs, {OkReply})
  \/ delete(NoBodyArgs, {OkReply})

SpecEncoding == Init /\ [][NextEncoding]_vars

(***************************************************************************)
(* The cd command and parse_path, on paths written from their names.       *)
(***************************************************************************)
MaxDepth == 2

\* a path written from its names, absolute or not
PathInput(names, absolute) ==
  [text |-> (IF absolute THEN << "/" >> ELSE << >>) \o Join(<< "/" >>, names),
   names |-> names, absolute |-> absolute]

Up(n) == [i \in 1..n |-> S_dotdot]

RelativePaths ==
  {PathInput(Up(n), FALSE) : n \in 1..4}
  \cup {PathInput(<< << "a" >> >> \o Up(n), FALSE) : n \in 0..3}
  \cup {PathInput(<< S_dot >> \o Up(n), FALSE) : n \in 0..1}
  \cup {PathInput(<< S_dotdot, << "b" >> >>, FALSE)}

AbsolutePaths ==
  {PathInput(Up(n), TRUE) : n \in 0..2}
  \cup {PathInput(<< << "a" >> >> \o Up(n), TRUE) : n \in 0..2}
  \cup {PathInput(<< << "a" >>, << "b" >> >>, TRUE)}

CdPaths ==
  {PathInput(<< << "a" >> >>, FALSE), PathInput(<< << "b" >> >>, FALSE),
   PathInput(<< S_dotdot >>, FALSE), PathInput(<< S_dash >>, FALSE),
   PathInput(<< >>, FALSE), PathInput(<< >>, TRUE)}

\* the names of a current path
Depth(cwd) == Len(SelectSeq(Split(cwd, << "/" >>), LAMBDA name : Len(name) > 0))

\* parse_path(path), called on its own
ParsePath(paths) ==
  \E input \in paths :
    /\ last' = [input |-> input, cwd |-> env.cwd, last_cwd |-> env.last_cwd,
                out |-> parse_path(env, input.text), op |-> "parse_path"]
    /\ UNCHANGED << base_url, cookies, basic_auth, received, env, session >>

\* lines 579-592 with key 'cwd'
SetCwd(value) == SetEnvCwd(env, value)

\* lines 756-760: cd with one parameter
CdDone(input, out) ==
  /\ out.raised = "none" => Depth(out.path) <= MaxDepth
  /\ env' = IF out.raised = "none" THEN SetCwd(out.path) ELSE env
  /\ last' = [input |-> input, cwd |-> env.cwd, last_cwd |-> env.last_cwd,
              out |-> out, op |-> "cd"]
  /\ UNCHANGED << base_url, cookies, basic_auth, received, session >>

cd(paths) == \E input \in paths : CdDone(input, parse_path(env, input.text))

NextCd ==
  \/ cd(CdPaths)
  \/ ParsePath(RelativePaths)
  \/ ParsePath(AbsolutePaths)

SpecCd == Init /\ [][NextCd]_vars

(***************************************************************************)
(* Parameters of one command line, read one after the other by             *)
(* parse_param.  A token is written with the key path it names and the     *)
(* value it gives.                                                         *)
(***************************************************************************)
MaxTokens == 2

ParamToken(text, names, value) == [token |-> text, keypath |-> names, gives |-> value]

OneTwo == VList(<< VInt(1), VInt(2) >>)

\* tokens of every form of the grammar
GrammarTokens ==
  { ParamToken(S_foo, << S_foo >>, VBool(TRUE)),
    ParamToken(<< "^" >> \o S_foo, << S_foo >>, VBool(FALSE)),
    ParamToken(<< "a", ".", "b", "=", "3" >>, << << "a" >>, << "b" >> >>, VStr(<< "3" >>)),
    ParamToken(<< "a", ":", "=", "[", "1", ",", "2", "]" >>, << << "a" >> >>, OneTwo),
    ParamToken(<< "a", "=", "1" >>, << << "a" >> >>, VStr(<< "1" >>)),
    ParamToken(<< "a", ".", "b", "=", "2" >>, << << "a" >>, << "b" >> >>, VStr(<< "2" >>)),
    ParamToken(<< "a", ".", "c", "=" >>, << << "a" >>, << "c" >> >>, VStr(<< >>)),
    ParamToken(<< "b", "=", "x", "=", "y" >>, << << "b" >> >>, VStr(<< "x", "=", "y" >>)),
    ParamToken(<< "a", ".", "b", ".", "c" >>, << << "a" >>, << "b" >>, << "c" >> >>, VBool(TRUE)),
    ParamToken(<< "a" >>, << << "a" >> >>, VBool(TRUE)),
    ParamToken(<< "a", ".", "b", ":", "=", "n", "u", "l", "l" >>, << << "a" >>, << "b" >> >>, VNone),
    ParamToken(<< "x", "+", "=" >>, << << "x" >> >>, VStr(<< "7" >>)) }

\* tokens that name no value: a text that is no JSON, a variable not in memory
BadTokens ==
  { ParamToken(<< "a", ":", "=", "[", "1" >>, << << "a" >> >>, VNone),
    ParamToken(<< "y", "+", "=" >>, << << "y" >> >>, VNone) }

\* self.data_store
DataStore == << << << "x" >>, VStr(<< "7" >>) >> >>

ParamDone(count, params, token, out) ==
  /\ last' = [param |-> token, out |-> out, op |-> "parse_param", count |-> count,
              before |-> params]
  /\ UNCHANGED << base_url, cookies, basic_auth, received, env, session >>

\* parse_param(token, {}) for the first parameter of a command line
FirstParam(tokens) ==
  \E token \in tokens :
    ParamDone(1, VDict(<< >>), token, parse_param(DataStore, token.token, VDict(<< >>)))

\* parse_param(token, params) for a later one, on what the one before gave
NextParam(tokens) ==
  \E token \in tokens :
    /\ last.op = "parse_param"
    /\ last.count < MaxTokens
    /\ last.out.raised = "none"
    /\ ParamDone(last.count + 1, last.out.params, token,
                 parse_param(DataStore, token.token, last.out.params))

NextParams ==
  \/ FirstParam(GrammarTokens)
  \/ FirstParam(BadTokens)
  \/ NextParam(GrammarTokens)
  \/ NextParam(BadTokens)

SpecParams == Init /\ [][NextParams]_vars

(***************************************************************************)
(* Command lines read by parse_args.  A line is written from the tokens    *)
(* of its verb, of the bare tokens after it and of flags set between them. *)
(***************************************************************************)
\* lines 90-99: color is sys.stdout.isatty()
MainArgs(color) ==
  [url |-> << "h", "t", "t", "p", "s", ":", "/", "/", "l", "o", "c", "a", "l", "h", "o", "s",
              "t", ":", "4", "4", "3", "/" >>, color |-> color,
   formatted |-> TRUE]

ShellSelf(color) == [data_store |-> DataStore, main_args |-> MainArgs(color), env |-> env]

\* a first token, with the verb it stands for
VerbToken(text, verb) == [token |-> text, means |-> verb]

VerbTokens ==
  { VerbToken(S_get, S_get), VerbToken(S_GET, S_get), VerbToken(<< "P", "o", "s", "t" >>, S_post),
    VerbToken(<< "d", "e", "l" >>, S_delete), VerbToken(<< "O", "p", "t", "s" >>, S_options),
    VerbToken(<< "o", "p", "t" >>, S_options), VerbToken(<< "?" >>, S_help),
    VerbToken(<< "c", "d" >>, << "c", "d" >>), VerbToken(<< "S", "e", "t" >>, << "s", "e", "t" >>) }

\* a later token, with the path it names from '/' and, as a parameter, its
\* key path and value
BareToken(text, path, names, value) ==
  [token |-> text, keypath |-> names, gives |-> value, names_path |-> path]

BareTokens ==
  { BareToken(<< "/", "a" >>, << "/", "a" >>, << << "/", "a" >> >>, VBool(TRUE)),
    BareToken(<< "x", "=", "1" >>, << "/", "x", "=", "1" >>, << << "x" >> >>, VStr(<< "1" >>)),
    BareToken(<< "a", ".", "b", "=", "2" >>, << "/", "a", ".", "b", "=", "2" >>,
              << << "a" >>, << "b" >> >>, VStr(<< "2" >>)) }

BareLists ==
  { << >> } \cup {<< b >> : b \in BareTokens}
  \cup {<< b1, b2 >> : b1 \in BareTokens, b2 \in BareTokens}
  \cup {<< b1, b2, b1 >> : b1 \in BareTokens,
                           b2 \in {b \in BareTokens : b.token = << "x", "=", "1" >>}}

Tokens(bare) == [k \in 1..Len(bare) |-> bare[k].token]

\* flags, some with a value, set before the verb, after it, or at the end
FlagGroups ==
  { << >>, << S_flag("v") >>,
    << S_flag("H"), << "A", ":", " ", "b" >>, S_long(<< "r", "a", "w" >>) >> }

LineWithFlags(verb, bare, flags, place) ==
  CASE place = 0 -> flags \o << verb.token >> \o Tokens(bare)
    [] place = 1 -> << verb.token >> \o flags \o Tokens(bare)
    [] OTHER -> << verb.token >> \o Tokens(bare) \o flags

ArgsDone(parts, verb, bare, out) ==
  /\ last' = [parts |-> parts, out |-> out, op |-> "parse_args", bare |-> bare, first |-> verb]
  /\ UNCHANGED << base_url, cookies, basic_auth, received, env, session >>

\* parse_args(parts)
ParseArgs(parts, verb, bare) == ArgsDone(parts, verb, bare, parse_args(ShellSelf(FALSE), parts))

ParseLine ==
  \E verb \in VerbTokens, bare \in BareLists :
    ParseArgs(LineWithFlags(verb, bare, << >>, 0), verb, bare)

ParseFlaggedLine ==
  \E verb \in VerbTokens, bare \in BareLists, flags \in FlagGroups \ { << >> }, place \in 0..2 :
    Len(bare) <= 1 /\ ParseArgs(LineWithFlags(verb, bare, flags, place), verb, bare)

\* a line of flags and no other token
ParseFlagsOnly ==
  \E flags \in FlagGroups : ArgsDone(flags, VerbToken(<< >>, << >>), << >>,
                                      parse_args(ShellSelf(FALSE), flags))

NextArgs ==
  \/ ParseLine
  \/ ParseFlaggedLine
  \/ ParseFlagsOnly

SpecArgs == Init /\ [][NextArgs]_vars

(***************************************************************************)
(* Command lines with condensed flags: each item of a line is written as   *)
(* it stands in the line and as the separate flags it stands for.          *)
(***************************************************************************)
LineItem(written, separate) == [written |-> written, separate |-> separate]

CondensedItem(letters) ==
  LineItem(<< << "-" >> \o letters >>, [k \in 1..Len(letters) |-> S_flag(letters[k])])

PlainItem(text) == LineItem(<< text >>, << text >>)

LineItems ==
  { CondensedItem(<< "f", "r" >>), CondensedItem(<< "v", "C" >>),
    CondensedItem(<< "r", "v", "i" >>), PlainItem(S_flag("v")), PlainItem(S_get),
    PlainItem(<< "/", "a" >>) }

RECURSIVE Written(_)
Written(items) == IF Len(items) = 0 THEN << >> ELSE items[1].written \o Written(Tail(items))

RECURSIVE Separate(_)
Separate(items) == IF Len(items) = 0 THEN << >> ELSE items[1].separate \o Separate(Tail(items))

CondensedDone(items, out) ==
  /\ last' = [parts |-> Written(items), out |-> out, op |-> "parse_condensed",
              flat |-> Separate(items)]
  /\ UNCHANGED << base_url, cookies, basic_auth, received, env, session >>

\* parse_args(parts) for a line of one, two or three items; color is what
\* the terminal says
ParseCondensed(items, color) ==
  CondensedDone(items, parse_args(ShellSelf(color), Written(items)))

ParseOne == \E item \in LineItems, color \in BOOLEAN : ParseCondensed(<< item >>, color)

ParseTwo ==
  \E item1 \in LineItems, item2 \in LineItems : ParseCondensed(<< item1, item2 >>, TRUE)

ParseThree ==
  \E item1 \in LineItems, item2 \in LineItems, item3 \in LineItems :
    ParseCondensed(<< item1, item2, item3 >>, TRUE)

NextCondensed ==
  \/ ParseOne
  \/ ParseTwo
  \/ ParseThree

SpecCondensed == Init /\ [][NextCondensed]_vars

(***************************************************************************)
(* Command lines with an output redirection: the tokens before it, the     *)
(* redirection as written, with the file and the mode it names, and the    *)
(* tokens after it.                                                        *)
(***************************************************************************)
RedirectForm(written, file, mode) ==
  [written |-> written, file |-> file, mode |-> mode, missing |-> FALSE]

\* a '>' or '>>' that ends the line
TrailingForm(written, mode) ==
  [written |-> written, file |-> << >>, mode |-> mode, missing |-> TRUE]

RedirectFiles == { << "f" >>, << "o", ".", "t", "x", "t" >>, << "/", "t", "/", "o" >> }

RedirectForms ==
  UNION { { RedirectForm(<< << ">" >>, file >>, file, << "w" >>),
            RedirectForm(<< << ">" >> \o file >>, file, << "w" >>),
            RedirectForm(<< << ">", ">" >>, file >>, file, << "a" >>),
            RedirectForm(<< << ">", ">" >> \o file >>, file, << "a" >>) } : file \in RedirectFiles }

TrailingForms == { TrailingForm(<< << ">" >> >>, << "w" >>), TrailingForm(<< << ">", ">" >> >>, << "a" >>) }

TokensBefore ==
  { << >>, << S_get >>, << S_get, << "/", "a" >> >>, << << "s", "e", "t" >>, << "k" >> >>,
    << S_post, << "/", "a" >>, << "x", "=", "1" >> >> }

TokensAfter == { << >>, << S_flag("v") >>, << << "y", "=", "2" >> >> }

RedirectDone(before, form, after, out) ==
  /\ last' = [parts |-> before \o form.written \o after, out |-> out,
              op |-> "parse_redirect", before |-> before, form |-> form, after |-> after]
  /\ UNCHANGED << base_url, cookies, basic_auth, received, env, session >>

\* parse_args(parts) for a line with one redirection
ParseRedirect(before, form, after) ==
  RedirectDone(before, form, after,
               parse_args(ShellSelf(TRUE), before \o form.written \o after))

ParseRedirected ==
  \E before \in TokensBefore, form \in RedirectForms, after \in TokensAfter :
    ParseRedirect(before, form, after)

ParseTrailing ==
  \E before \in TokensBefore, form \in TrailingForms : ParseRedirect(before, form, << >>)

NextRedirect ==
  \/ ParseRedirected
  \/ ParseTrailing

SpecRedirect == Init /\ [][NextRedirect]_vars

(***************************************************************************)
(* An interactive session: the lines typed at the prompt of Shell.start,   *)
(* each with what it is, the reply the server gives to its request and     *)
(* the parameters the line itself names.                                   *)
(***************************************************************************)
CmdInput(text, kind, reply, given) ==
  [kind |-> kind, reply |-> reply, given |-> given, line |-> text]

NotFound == JsonReply(404, ErrorPayload, << >>)
Unavailable == ReplyInput(503, S_textPlain, S_oops, TRUE, VBytes(S_oops), << >>)

RequestCmds ==
  {
    CmdInput(<< "g", "e", "t", " ", "/", "a" >>, "request", OkReply, << >>),
    CmdInput(<< "p", "o", "s", "t", " ", "/", "a", " ", "x", "=", "1" >>, "request", OkReply,
             << << << "x" >>, << "1" >> >> >>),
    CmdInput(<< "p", "o", "s", "t", " ", "/", "a", " ", "x", "=", "1", " ", "z", "=", "3" >>,
             "request", OkReply, << << << "x" >>, << "1" >> >>, << << "z" >>, << "3" >> >> >>),
    CmdInput(<< "p", "o", "s", "t", " ", "/", "a", " ", "z", "=", "3" >>, "request", OkReply,
             << << << "z" >>, << "3" >> >> >>),
    CmdInput(<< "p", "u", "t", " ", "/", "a" >>, "request", OkReply, << >>) }

StatusErrorCmds ==
  {
    CmdInput(<< "g", "e", "t", " ", "/", "a" >>, "status_error", NotFound, << >>),
    CmdInput(<< "g", "e", "t", " ", "/", "a" >>, "status_error", Unavailable, << >>),
    CmdInput(<< "p", "o", "s", "t", " ", "/", "a", " ", "x", "=", "1" >>, "status_error",
             NotFound, << << << "x" >>, << "1" >> >> >>) }

TransportErrorCmds ==
  {
    CmdInput(<< "g", "e", "t", " ", "/", "a" >>, "transport_error", NoReply, << >>),
    CmdInput(<< "d", "e", "l", "e", "t", "e", " ", "/", "a" >>, "transport_error", NoReply,
             << >>) }

GrammarErrorCmds ==
  {
    CmdInput(<< "b", "o", "g", "u", "s" >>, "unknown_command", OkReply, << >>),
    CmdInput(<< "c", "d", " ", ".", ".", "/", ".", ".", "/", ".", "." >>, "out_of_bounds",
             OkReply, << >>),
    CmdInput(<< "g", "e", "t", " ", ".", ".", "/", ".", ".", "/", ".", "." >>, "out_of_bounds",
             OkReply, << >>),
    CmdInput(<< "g", "e", "t", " ", "/", "a", " ", "y", "+", "=" >>, "unknown_variable", OkReply,
             << >>),
    CmdInput(<< "g", "e", "t", " ", "/", "a", " ", "-", "Q", " ", "z", "z" >>, "bad_flag",
             OkReply, << >>),
    CmdInput(<< "g", "e", "t", " ", "/", "a", " ", "-", "j", " ", "z", "z" >>, "bad_flag",
             OkReply, << >>),
    CmdInput(<< "g", "e", "t", " ", "/", "a", " ", "-", "H" >>, "bad_flag", OkReply, << >>) }

InternalCmds ==
  {
    CmdInput(<< "c", "d", " ", "/", "a" >>, "internal", OkReply, << >>),
    CmdInput(<< "c", "d", " ", "-" >>, "internal", OkReply, << >>),
    CmdInput(<< "c", "d", " ", ".", "." >>, "internal", OkReply, << >>),
    CmdInput(<< "e", "n", "v", " ", "+", "=", "x" >>, "internal", OkReply, << >>),
    CmdInput(<< "e", "n", "v", " ", "-", "=", "x" >>, "internal", OkReply, << >>),
    CmdInput(<< "e", "n", "v" >>, "internal", OkReply, << >>),
    CmdInput(<< "h", "e", "l", "p" >>, "internal", OkReply, << >>),
    CmdInput(<< >>, "internal", OkReply, << >>) }

QuitCmds ==
  {
    CmdInput(<< "q", "u", "i", "t" >>, "quit", OkReply, << >>),
    CmdInput(<< "Q", "U", "I", "T" >>, "quit", OkReply, << >>) }

InputErrorCmds ==
  {
    CmdInput(<< "g", "e", "t", " ", "DQ", "a" >>, "input_error", OkReply, << >>) }

\* one turn of the loop of start: input() gave the line of c, parse_cmd ran
\* it with print_meta=True and left out
CmdDone(c, out) ==
  /\ Depth(out.env.cwd) <= MaxDepth
  /\ Len(received) + Len(c.reply.set_cookies) <= MaxReceived
  /\ env' = out.env
  /\ cookies' = out.cookies
  /\ received' = IF out.request # NoRequest /\ out.request.delivered
                 THEN received \o [i \in 1..Len(c.reply.set_cookies) |->
                                     << c.reply.set_cookies[i][1], c.reply.set_cookies[i][2] >>]
                 ELSE received
  /\ session' = AfterCmd(out.raised)
  /\ last' = [env |-> env, cmd |-> c, out |-> out, op |-> "parse_cmd"]
  /\ UNCHANGED << base_url, basic_auth >>

ReadCmd(cmds) ==
  /\ session = "reading"
  /\ \E c \in cmds : CmdDone(c, parse_cmd(ShellSelf(TRUE), Self, c.line, TRUE, Response(c.reply)))

\* input() raises EOFError
EndOfInput ==
  /\ session = "reading"
  /\ session' = "stopped"
  /\ last' = [op |-> "eof"]
  /\ UNCHANGED << base_url, cookies, basic_auth, received, env >>

NextShell ==
  \/ ReadCmd(RequestCmds)
  \/ ReadCmd(StatusErrorCmds)
  \/ ReadCmd(TransportErrorCmds)
  \/ ReadCmd(GrammarErrorCmds)
  \/ ReadCmd(InternalCmds)
  \/ ReadCmd(QuitCmds)
  \/ ReadCmd(InputErrorCmds)
  \/ EndOfInput

SpecShell == Init /\ [][NextShell]_vars

(***************************************************************************)
(* A session of cd commands, with paths that end in a slash, that repeat   *)
(* slashes, and that climb too far, and parse_path asked about the same    *)
(* input with and without a slash at the end of the current path.          *)
(***************************************************************************)
Slashed(names) == names \o << << >> >>

DirPaths ==
  {PathInput(<< << "a" >> >>, FALSE), PathInput(Slashed(<< << "a" >>, << "b" >> >>), FALSE),
   PathInput(<< S_dotdot >>, FALSE), PathInput(<< S_dash >>, FALSE), PathInput(<< >>, FALSE),
   PathInput(<< S_dot >>, FALSE), PathInput(<< << "b" >> >>, TRUE),
   PathInput(Slashed(Slashed(<< << "a" >>, S_dot, S_dotdot, << "b" >> >>)), FALSE),
   PathInput(<< << >>, << "a" >> >>, TRUE)}

ClimbingPaths == {PathInput(Up(n), FALSE) : n \in 3..4}

ComparedPaths ==
  {PathInput(<< S_dotdot >>, FALSE), PathInput(<< S_dot >>, FALSE),
   PathInput(<< << "c" >> >>, FALSE), PathInput(Slashed(<< << "c" >> >>), FALSE),
   PathInput(<< S_dotdot, << "c" >> >>, FALSE), PathInput(<< << "c" >>, S_dotdot >>, FALSE),
   PathInput(<< << "c" >> >>, TRUE), PathInput(Up(3), FALSE)}

\* parse_path(input) with the current path as it is, ending in a slash or
\* not, and with the slash at its end taken off or put on
ParsePathBoth(paths) ==
  \E input \in paths :
    /\ env.cwd # << "/" >>
    /\ last' = [input |-> input, op |-> "parse_path_both",
                plain |-> parse_path([env EXCEPT !.cwd = Rstrip(env.cwd, "/")], input.text),
                slashed |-> parse_path([env EXCEPT !.cwd = Rstrip(env.cwd, "/") \o << "/" >>],
                                       input.text)]
    /\ UNCHANGED << base_url, cookies, basic_auth, received, env, session >>

NextDirs ==
  \/ cd(DirPaths)
  \/ cd(ClimbingPaths)
  \/ ParsePathBoth(ComparedPaths)

SpecDirs == Init /\ [][NextDirs]_vars

(***************************************************************************)
(* Every operation of the client next to requests that set cookies.        *)
(***************************************************************************)
JarUrls == {u \in UrlInputs : u.host = S_foo /\ u.rest = << >> /\ u.port.has = "none"}

NextJar ==
  \/ SetBaseUrl(JarUrls)
  \/ SetBasicAuth({ << >>, S_uPw })
  \/ BuildUrl({ << "/", "x" >> }, { << >> })
  \/ get({DefaultArgs}, CookieReplies)

SpecJar == Init /\ [][NextJar]_vars

(***************************************************************************)
(* Replies that claim JSON, with bodies that parse and bodies that do not, *)
(* over statuses of every class and charsets Python knows and does not.    *)
(***************************************************************************)
S_jsonBogus ==
  S_json \o << ";", " ", "c", "h", "a", "r", "s", "e", "t", "=", "b", "o", "g", "u", "s" >>

DecodeTypes == { S_json, S_jsonUtf8, S_jsonBogus, S_textPlain }
DecodeStatuses == { 199, 200, 404, 500 }
\* << text, whether it is JSON, the value it encodes >>
DecodeBodies ==
  { << S_oops, FALSE, VNone >>,
    << << >>, FALSE, VNone >>,
    << json_dumps(VDict(<< >>)), TRUE, VDict(<< >>) >> }
DecodeCookies == { << >>, << CookieA1 >>, << << << "b" >>, << "2" >>, S_pathAttr >> >> }

DecodeReplies ==
  {ReplyInput(st, ct, b[1], b[2], b[3], c) :
      st \in DecodeStatuses, ct \in DecodeTypes, b \in DecodeBodies, c \in DecodeCookies}

NextDecode ==
  \/ get({DefaultArgs}, DecodeReplies)
  \/ post({DefaultArgs}, {r \in DecodeReplies : r.status = 500 /\ ~r.ok} \cup {NoReply})

SpecDecode == Init /\ [][NextDecode]_vars

(***************************************************************************)
(* Reading a URL back: the authority (host and port) and the path part.    *)
(***************************************************************************)
AfterScheme(url) == SplitOnce(url, S_schemeSep)[2]

Authority(url) ==
  LET a == AfterScheme(url)
  IN IF Find(a, << "/" >>) > 0 THEN SplitOnce(a, << "/" >>)[1] ELSE a

PathPart(url) ==
  LET a == AfterScheme(url)
      p == IF Find(a, << "/" >>) > 0 THEN From(a, Find(a, << "/" >>)) ELSE << >>
  IN IF Find(p, << "?" >>) > 0 THEN SplitOnce(p, << "?" >>)[1] ELSE p

\* the default port of a scheme
DefaultPort(scheme) == IF scheme = S_https THEN PyInt(443) ELSE PyInt(80)

(***************************************************************************)
(* Properties of set_base_url and build_url.                            *)
(***************************************************************************)
\* C6: set_base_url fails for every input whose scheme is not http or https
\* or whose explicit port is outside 1..65535, and succeeds for every
\* (non-empty) input with scheme http/https or none and a port in 1..65535
\* or none.
C6_PortRangeEnforced ==
  last.op = "set_base_url" =>
    LET u == last.input
        badScheme == u.scheme.name \notin {"none", "http", "https"}
        badPort == u.port.has = "num" /\ (u.port.num < 1 \/ u.port.num > 65535)
        goodPort == u.port.has = "none"
                    \/ (u.port.has = "num" /\ u.port.num >= 1 /\ u.port.num <= 65535)
    IN /\ (badScheme \/ badPort) => last.raised # "none"
       /\ (~badScheme /\ goodPort /\ Len(Render(u)) > 0) => last.raised = "none"

\* C7: set_base_url fails for an input whose host part has the ':' port
\* separator followed by an empty port string (':' and 'foo:').
C7_EmptyPortFails ==
  (last.op = "set_base_url" /\ last.input.port.has = "empty") => last.raised # "none"

\* C8: for every base-URL string accepted by set_base_url that carries no
\* explicit port, the resolved port is 443 if and only if the scheme is
\* https, and 80 otherwise.
C8_DefaultPortByScheme ==
  (last.op = "set_base_url" /\ last.raised = "none" /\ last.input.port.has = "none") =>
    /\ base_url.port.kind = "int"
    /\ (base_url.port.n = 443) <=> (last.input.scheme.name = "https")
    /\ (base_url.port.n = 80) <=> (last.input.scheme.name # "https")

C8_Witness ==
  /\ last.op = "set_base_url"
  /\ last.raised = "none"
  /\ last.input.port.has = "none"
  /\ last.input.scheme.name = "https"
  /\ base_url.port = PyInt(443)

\* C9: build_url includes ':port' in the URL it returns if and only if the
\* base URL's port differs from the default port of the base URL's scheme.
C9_PortShownIffNotDefault ==
  last.op = "build_url" =>
    (Contains(Authority(last.url), << ":" >> \o PyToStr(last.base.port))
       <=> (last.base.port # DefaultPort(last.base.scheme)))

\* C10: the path part of the URL build_url returns starts with exactly one
\* '/' and has no two consecutive '/', whatever slashes the base path and
\* the request path hold; collapsing its slashes again changes nothing.
C10_SingleSlashes ==
  last.op = "build_url" =>
    LET p == PathPart(last.url)
    IN /\ Len(p) >= 1
       /\ p[1] = "/"
       /\ (Len(p) >= 2 => p[2] # "/")
       /\ ~Contains(p, << "/", "/" >>)
       /\ CollapseSlashes(p) = p

C10_Witness ==
  /\ last.op = "build_url"
  /\ Contains(base_url.path, << "/", "/" >>)
  /\ Contains(last.path, << "/", "/" >>)
  /\ Contains(PathPart(last.url), << "a", "/", "a" >>)

(***************************************************************************)
(* Properties of request and the verb methods.                          *)
(***************************************************************************)
\* the query string of a URL: what follows its first '?'
UrlQuery(url) == After(url, << "?" >>)

\* the key=value pairs of a query string
QueryPairs(query) == {p \in {Split(query, << "&" >>)[i] : i \in 1..Len(Split(query, << "&" >>))} : Len(p) > 0}

\* C1: for each verb method m of head, get, post, put, patch, delete and
\* options, the transport request issued by calling m carries m, in upper
\* case, as its HTTP method.
C1_VerbIsMethod ==
  (last.op = "request" /\ last.via \in {Lower(S_HEAD), Lower(S_GET), Lower(S_POST),
                                         Lower(S_PUT), Lower(S_PATCH), Lower(S_DELETE),
                                         Lower(S_OPTIONS)}
   /\ last.out.delivered)
    => last.out.sent.wire_method = Upper(last.via)

\* C2: for every request whose method is GET or HEAD, whatever body mapping
\* is given, the transport call carries no body and every key=value pair of
\* the query-encoded body is in the query string of the final URL.
C2_BodyInQuery ==
  (last.op = "request" /\ last.out.sent.method \in {S_GET, S_HEAD})
    => /\ ~last.out.sent.hasData
       /\ QueryPairs(build_query(NormBody(last.args.body), << >>))
            \subseteq QueryPairs(UrlQuery(last.out.sent.url))

\* a HEAD request with a body of two entries, a query in the path and a
\* query of its own went out
C2_Witness ==
  /\ last.op = "request"
  /\ last.out.sent.method = S_HEAD
  /\ last.out.delivered
  /\ last.args.body.t = "dict" /\ Len(last.args.body.v) = 2
  /\ Contains(last.args.path, << "?" >>)
  /\ last.args.query.t = "list"
  /\ << "b", "=", "1" >> \in QueryPairs(UrlQuery(last.out.sent.url))

\* the error carries, and the call returns, the Response of the reply with
\* its decoded body
CarriesResponse(result, reply) ==
  /\ result.kind = "response"
  /\ result.status = reply.status
  /\ result.decoded = reply.value

Named(headers, name) == {headers[i][2] : i \in {j \in 1..Len(headers) : headers[j][1] = name}}

\* the value a caller gave last under a name, ignoring case
LastGiven(headers, name) ==
  headers[CHOOSE i \in 1..Len(headers) :
            /\ Lower(headers[i][1]) = name
            /\ \A j \in (i + 1)..Len(headers) : Lower(headers[j][1]) # name][2]

\* base64 of the credentials used, as the base64 tool prints them
Base64Of(credential) ==
  IF credential = S_fooBar
  THEN << "Z", "m", "9", "v", "O", "m", "J", "h", "c", "g", "=", "=" >>
  ELSE << "d", "T", "p", "w", "d", "w", "=", "=" >>

\* what a request sends under a name the caller did not give
Built(name, jar, credential) ==
  CASE name = S_contentType -> {S_json}
    [] name = S_accept -> {S_json}
    [] name = S_cookie -> IF Len(jar) > 0 THEN {CookieHeader(jar)} ELSE {}
    [] name = S_authorization ->
         IF Len(credential) > 0 THEN {S_Basic \o Base64Of(credential)} ELSE {}
    [] OTHER -> {}

\* C4: the outgoing headers are the case-insensitive merge, lowest to
\* highest precedence, of the defaults, the cookie header, the basic-auth
\* header and the headers of the caller: Authorization is 'Basic ' and the
\* base64 of the per-call credential if given, else the client's; a header
\* of the caller in any letter case replaces the value under the same
\* lower-cased name; no two outgoing names differ only by case.
C4_HeaderMerge ==
  last.op = "request" =>
    /\ \A i, j \in 1..Len(last.out.sent.headers) :
         Lower(last.out.sent.headers[i][1]) = Lower(last.out.sent.headers[j][1]) => i = j
    /\ \A name \in LowerNames(last.args.headers) :
         Named(last.out.sent.headers, name) = {LastGiven(last.args.headers, name)}
    /\ \A name \in {S_contentType, S_accept, S_cookie, S_authorization}
                     \ LowerNames(last.args.headers) :
         Named(last.out.sent.headers, name)
           = Built(name, last.jar,
                   IF Len(last.args.basic_auth) > 0 THEN last.args.basic_auth ELSE last.auth)
    /\ LowerNames(last.out.sent.headers)
         \subseteq {S_contentType, S_accept, S_cookie, S_authorization}
                     \cup LowerNames(last.args.headers)
    /\ \A i \in 1..Len(last.out.sent.headers) :
         last.out.sent.headers[i][1] = Lower(last.out.sent.headers[i][1])

\* a client with a credential and a cookie sent a request with a credential
\* of its own and two X-Foo headers that differ by case
C4_Witness ==
  /\ last.op = "request"
  /\ last.auth = S_uPw
  /\ last.args.basic_auth = S_fooBar
  /\ Len(last.jar) > 0
  /\ Len(last.args.headers) = 2
  /\ Named(last.out.sent.headers, S_authorization)
       = {S_Basic \o << "Z", "m", "9", "v", "O", "m", "J", "h", "c", "g", "=", "=" >>}
  /\ Named(last.out.sent.headers, Lower(S_XFoo)) = {<< "2" >>}

\* the value most recently received for a cookie name
Latest(log, name) ==
  log[CHOOSE i \in 1..Len(log) :
        /\ log[i][1] = name
        /\ \A j \in (i + 1)..Len(log) : log[j][1] # name][2]

\* the name=value items of a Cookie header
CookieItems(header) == {Split(header, << "&" >>)[i] : i \in 1..Len(Split(header, << "&" >>))}

\* C5: after any sequence of requests on one client, failed ones included,
\* the Cookie header of the next request that gives no cookie header of its
\* own contains name=value for every cookie name ever received in a
\* Set-Cookie header, with the value most recently received for that name.
C5_CookiesReturned ==
  (last.op = "request" /\ S_cookie \notin LowerNames(last.args.headers))
    => \A i \in 1..Len(last.received) :
         \E header \in Named(last.out.sent.headers, S_cookie) :
           (last.received[i][1] \o << "=" >> \o Latest(last.received, last.received[i][1]))
             \in CookieItems(header)

\* a request went out after a=1, then a=2 and a cookie b were received, and
\* its Cookie header holds a=2
C5_Witness ==
  /\ last.op = "request"
  /\ S_cookie \notin LowerNames(last.args.headers)
  /\ Len(last.received) = 3
  /\ last.received[1] = << << "a" >>, << "1" >> >>
  /\ last.received[2] = << << "a" >>, << "2" >> >>
  /\ last.received[3][1] = << "b" >>
  /\ \E header \in Named(last.out.sent.headers, S_cookie) :
       << "a", "=", "2" >> \in CookieItems(header)

\* the elements of a query string split on '&' (none for an empty string)
QueryElements(query) ==
  IF Len(query) = 0 THEN {}
  ELSE {Split(query, << "&" >>)[i] : i \in 1..Len(Split(query, << "&" >>))}

\* the key=value pairs a caller supplies with a query given as a string, a
\* list of strings or a flat mapping of strings
SuppliedPairs(query) ==
  CASE query.t = "str" -> QueryPairs(Lstrip(query.v, "?"))
    [] query.t = "list" -> {query.v[i].v : i \in 1..Len(query.v)} \ { << >> }
    [] query.t = "dict" ->
         {query.v[i][1] \o << "=" >> \o query.v[i][2].v : i \in 1..Len(query.v)}
    [] OTHER -> {}

\* C11: for every request the final URL contains at most one '?', and its
\* query string, split on '&', consists of exactly the key=value pairs given
\* by the query of the base URL, the query in the request path and the query
\* of the call, with no empty element; when all are empty the URL has no '?'.
C11_QueryExactlySupplied ==
  (last.op = "request" /\ ~VTruthy(NormBody(last.args.body)))
    => LET url == last.out.sent.url
           supplied == QueryPairs(base_url.query)
                         \cup QueryPairs(After(last.args.path, << "?" >>))
                         \cup SuppliedPairs(last.args.query)
       IN /\ Cardinality({i \in 1..Len(url) : url[i] = "?"}) <= 1
          /\ QueryElements(UrlQuery(url)) = supplied
          /\ (supplied = {}) => ~Contains(url, << "?" >>)

\* a query without its one leading '?'
Unmarked(query) == IF Len(query) > 0 /\ query[1] = "?" THEN Tail(query) ELSE query

\* the key=value pairs of a query, in order, repeated ones kept
PairsInOrder(query) == SelectSeq(Split(Unmarked(query), << "&" >>), LAMBDA p : Len(p) > 0)

\* merge_query(merge_query(a, b), c) holds the pairs of a, b and c in order
MergedInOrder ==
  last.op = "merge_query_twice"
    => SelectSeq(Split(last.out, << "&" >>), LAMBDA p : Len(p) > 0)
         = PairsInOrder(last.a) \o PairsInOrder(last.b) \o PairsInOrder(last.c)

\* C12 as stated: merge_query(q1, q2) returns q1 when q2 is empty or absent,
\* and otherwise q1 + '&' + q2 with one leading '?' stripped from each; so
\* merge_query(merge_query(a, b), c) holds every pair of a, b and c in order.
C12_MergeReturnsFirst ==
  /\ last.op = "merge_query"
       => last.out = (IF Len(last.query2) = 0 THEN last.query1
                      ELSE Unmarked(last.query1) \o << "&" >> \o Unmarked(last.query2))
  /\ MergedInOrder

\* C12: merge_query(q1, q2) returns q1 without its one leading '?' when q2
\* is empty or absent, and otherwise q1 + '&' + q2 with one leading '?'
\* stripped from each; so merge_query(merge_query(a, b), c) holds every
\* key=value pair of a, b and c, in that order, with repeated keys kept.
C12_MergeStripsAndJoins ==
  /\ last.op = "merge_query"
       => last.out = (IF Len(last.query2) = 0 THEN Unmarked(last.query1)
                      ELSE Unmarked(last.query1) \o << "&" >> \o Unmarked(last.query2))
  /\ MergedInOrder

\* three queries that repeat the pair a=1 were merged, the first and the
\* last written with a leading '?'
C12_Witness ==
  /\ last.op = "merge_query_twice"
  /\ last.a = << "?", "a", "=", "1" >>
  /\ last.b = << "b", "=", "1", "&", "a", "=", "1" >>
  /\ last.c = << "?", "c", "=", "3" >>
  /\ last.out = << "a", "=", "1", "&", "b", "=", "1", "&", "a", "=", "1", "&", "c", "=", "3" >>

\* '[' and ']' as quote writes them
S_open == << "%", "5", "B" >>
S_close == << "%", "5", "D" >>

\* what an entry is to give, booleans written as 1 and 0
ExpectedElements(e) ==
  LET bit == << IF e.b THEN "1" ELSE "0" >>
  IN CASE e.place = "top" -> {e.key \o << "=" >> \o bit}
       [] e.place = "nested" ->
            {e.key \o S_open \o << "k" >> \o S_close \o << "=" >> \o bit}
       [] e.place = "nested twice" ->
            {e.key \o S_open \o << "k" >> \o S_close \o S_open \o << "k" >> \o S_close
               \o << "=" >> \o bit}
       [] e.place = "list" -> {e.key \o S_open \o << "0" >> \o S_close \o << "=" >> \o bit}
       [] e.place = "list after str" ->
            {e.key \o S_open \o << "0" >> \o S_close \o << "=", "x" >>,
             e.key \o S_open \o << "1" >> \o S_close \o << "=" >> \o bit}
       [] OTHER -> {e.key \o << "=", "x" >>}

\* C13: build_query encodes every boolean of its input as '1' (true) or '0'
\* (false), wherever it occurs: as a value of the top-level mapping, of a
\* nested mapping at any depth, or as an element of a list.
C13_BooleansAsBits ==
  last.op = "build_query"
    => QueryElements(last.out)
         = UNION {ExpectedElements(last.entries[i]) : i \in 1..Len(last.entries)}

\* a mapping holds exactly these keys with these values, in any order
HoldsExactly(m, keys, values) ==
  /\ m.t = "dict"
  /\ Len(m.v) = Len(keys)
  /\ \A i \in 1..Len(keys) :
       \E j \in 1..Len(m.v) :
         m.v[j][1] = keys[i] /\ m.v[j][2].t = "str" /\ m.v[j][2].v = values[i]

\* C14: for every flat mapping m from string keys to string values,
\* build_query_obj(build_query(m)) equals m.
C14_RoundTrip == last.op = "round_trip" => HoldsExactly(last.out, last.keys, last.values)

\* a mapping of two entries came back, one with an empty key and a value
\* that holds '&' and '=', the other with an empty value
C14_Witness ==
  /\ last.op = "round_trip"
  /\ last.keys = << << >>, << "a" >> >>
  /\ last.values = << << "a", "&", "b", "=", "c" >>, << >> >>
  /\ HoldsExactly(last.out, last.keys, last.values)

(***************************************************************************)
(* Properties of the request body.                                         *)
(***************************************************************************)
\* the content type in force: the caller's header of that name, in any case,
\* and application/json without one
EffectiveContentType(headers) ==
  LET given == {i \in 1..Len(headers) : Lower(headers[i][1]) = S_contentType}
  IN IF given = {} THEN S_json
     ELSE headers[CHOOSE i \in given : \A j \in given : j <= i][2]

\* the JSON text and the form text of the bodies sent
JsonText(body) ==
  IF body.t = "none" THEN << "{", "}" >>
  ELSE IF body.v[1][1] = S_foo
  THEN << "{", "DQ", "f", "o", "o", "DQ", ":", " ", "DQ", "b", "a", "r", "DQ", "}" >>
  ELSE << "{", "DQ", "a", " ", "b", "DQ", ":", " ", "DQ", "c", "&", "d", "DQ", "}" >>

FormText(body) ==
  IF body.t = "none" THEN << >>
  ELSE IF body.v[1][1] = S_foo THEN << "f", "o", "o", "=", "b", "a", "r" >>
  ELSE << "a", "+", "b", "=", "c", "%", "2", "6", "d" >>

\* the body as given, {} when none is given
GivenBody(body) == IF body.t = "none" THEN VDict(<< >>) ELSE body

ExpectedData(a) ==
  IF a.pre_formatted_body THEN GivenBody(a.body)
  ELSE IF StartsWith(EffectiveContentType(a.headers), S_json) THEN VBytes(JsonText(a.body))
  ELSE IF EffectiveContentType(a.headers) = S_form THEN VBytes(FormText(a.body))
  ELSE GivenBody(a.body)

\* C15: a request other than GET and HEAD carries its body encoded as its
\* content type in force says: as JSON when that begins with
\* application/json (the default), as form data when it is exactly
\* application/x-www-form-urlencoded, and unchanged under any other type and
\* whenever pre_formatted_body is set
C15_EncodingByContentType ==
  (last.op = "request" /\ last.method \notin {S_GET, S_HEAD})
    => /\ last.out.sent.raised = "none"
       /\ last.out.sent.hasData
       /\ last.out.sent.data.t = ExpectedData(last.args).t
       /\ last.out.sent.data.v = ExpectedData(last.args).v

(***************************************************************************)
(* Properties of parse_path.                                               *)
(***************************************************************************)
\* walking the names from this depth below the root, some '..' is met at
\* the root
RECURSIVE ClimbsAboveRoot(_, _)
ClimbsAboveRoot(names, depth) ==
  IF Len(names) = 0 THEN FALSE
  ELSE IF names[1] = S_dotdot THEN depth = 0 \/ ClimbsAboveRoot(Tail(names), depth - 1)
  ELSE IF names[1] = S_dot THEN ClimbsAboveRoot(Tail(names), depth)
  ELSE ClimbsAboveRoot(Tail(names), depth + 1)

\* the depth an input starts from: the root when absolute, else the current path
StartDepth(call) == IF call.input.absolute THEN 0 ELSE Depth(call.cwd)

Resolves(call) ==
  call.op \in {"parse_path", "cd"} /\ call.input.text \notin { << >>, S_dash }

\* C16: parse_path fails with the out-of-bounds error exactly when the '..'
\* names of its input climb above the root, for relative and absolute
\* inputs alike; against /a/b, '..' gives /a, '../..' gives / and
\* '../../..' fails
C16_FailsExactlyAboveRoot ==
  Resolves(last) =>
    /\ (last.out.raised # "none") <=> ClimbsAboveRoot(last.input.names, StartDepth(last))
    /\ (last.cwd = << "/", "a", "/", "b" >> /\ last.input.text = S_dotdot)
         => last.out.path = << "/", "a" >>
    /\ (last.cwd = << "/", "a", "/", "b" >> /\ last.input.names = Up(2))
         => last.out.path = << "/" >>

(***************************************************************************)
(* Properties of parse_param.                                              *)
(***************************************************************************)
Missing == [t |-> "missing", v |-> << >>]

\* what a mapping holds under a key path
RECURSIVE ValueAt(_, _)
ValueAt(x, names) ==
  IF Len(names) = 0 THEN x
  ELSE IF x.t = "dict" /\ DictHas(x.v, names[1]) THEN ValueAt(DictGet(x.v, names[1]), Tail(names))
  ELSE Missing

SameValue(x, y) == x.t = y.t /\ x.v = y.v

IsPrefix(p, q) == Len(p) <= Len(q) /\ SubSeq(q, 1, Len(p)) = p

KeyNames == { << "a" >>, << "b" >>, << "c" >>, << "x" >>, << "y" >>, S_foo }
KeyPaths ==
  {<< k >> : k \in KeyNames} \cup {<< k1, k2 >> : k1 \in KeyNames, k2 \in KeyNames}
  \cup {<< << "a" >>, << "b" >>, k >> : k \in KeyNames}

\* every key path beside the one named holds what it held
OnlyNamedChanged(before, after, names) ==
  \A q \in KeyPaths :
    (~IsPrefix(q, names) /\ ~IsPrefix(names, q)) => SameValue(ValueAt(before, q), ValueAt(after, q))

OnEmpty(text) == last.op = "parse_param" /\ last.before.v = << >> /\ last.param.token = text

PassesNonMapping(before, names) ==
  \E n \in 1..(Len(names) - 1) : ValueAt(before, SubSeq(names, 1, n)).t \notin {"dict", "missing"}

\* C18: a dotted name that passes through a key holding a value that is no
\* mapping replaces that value with a new mapping and completes the
\* assignment: 'a=1' and then 'a.b=2' give {a: {b: '2'}}
C18_ReplacesNonMapping ==
  (last.op = "parse_param" /\ last.param \in GrammarTokens
     /\ PassesNonMapping(last.before, last.param.keypath))
    => /\ last.out.raised = "none"
       /\ SameValue(ValueAt(last.out.params, last.param.keypath), last.param.gives)

(***************************************************************************)
(* Properties of parse_args.                                               *)
(***************************************************************************)
HttpVerbs ==
  { << "h", "e", "a", "d" >>, << "g", "e", "t" >>, << "p", "o", "s", "t" >>,
    << "p", "u", "t" >>, << "p", "a", "t", "c", "h" >>, << "d", "e", "l", "e", "t", "e" >>,
    << "o", "p", "t", "i", "o", "n", "s" >> }

\* the mapping holds what the tokens give, and no key beside theirs
HoldsParams(api_args, params) ==
  /\ \A k \in 1..Len(params) : SameValue(ValueAt(api_args, params[k].keypath), params[k].gives)
  /\ \A j \in 1..Len(api_args.v) : \E k \in 1..Len(params) : params[k].keypath[1] = api_args.v[j][1]

\* C19: the first bare token is the verb, in lower case and with its alias
\* resolved; after an HTTP verb the second bare token is the path and the
\* later ones are merged into api_args by parse_param, cmd_args staying
\* empty; after any other verb the later bare tokens are cmd_args, as they
\* stand and in order, path and api_args staying unset; flags and their
\* values count for nothing in this
C19_VerbPathAndArgs ==
  (last.op = "parse_args" /\ Len(last.first.token) > 0)
    => /\ last.out.raised = "none"
       /\ last.out.args.verb = VStr(last.first.means)
       /\ last.first.means \in HttpVerbs
            => /\ last.out.args.cmd_args = << >>
               /\ IF Len(last.bare) = 0 THEN last.out.args.path = VNone
                  ELSE last.out.args.path = VStr(last.bare[1].names_path)
               /\ HoldsParams(last.out.args.api_args, SubSeq(last.bare, 2, Len(last.bare)))
       /\ last.first.means \notin HttpVerbs
            => /\ last.out.args.cmd_args = Tokens(last.bare)
               /\ last.out.args.path = VNone
               /\ last.out.args.api_args = VDict(<< >>)

C19_Witness ==
  /\ last.op = "parse_args"
  /\ last.parts = << << "d", "e", "l" >>, S_flag("H"), << "A", ":", " ", "b" >>,
                     S_long(<< "r", "a", "w" >>), << "/", "a" >> >>
  /\ last.out.args.verb = VStr(<< "d", "e", "l", "e", "t", "e" >>)
  /\ last.out.args.path = VStr(<< "/", "a" >>)

\* C20: every token of '-' and two or more letters is read as the separate
\* one-letter flags, wherever it stands in the line and however many such
\* tokens the line holds: ['-fr', '-vC'] is read as -f -r -v -C
C20_CondensedAsSeparate ==
  last.op = "parse_condensed"
    => /\ last.out.raised = "none"
       /\ last.out.args = parse_args(ShellSelf(last.out.args.color), last.flat).args

\* what the line gives with the redirection taken out of it
WithoutRedirect == parse_args(ShellSelf(TRUE), last.before \o last.after).args

\* C21: '> file', '>file', '>> file' and '>>file' all set the target to the
\* file, with mode write for '>' and append for '>>'; the token after a lone
\* '>' or '>>' is the target and is never the verb, the path or a parameter;
\* a '>' or '>>' that ends the line fails
C21_RedirectForms ==
  last.op = "parse_redirect"
    => IF last.form.missing THEN last.out.raised # "none"
       ELSE /\ last.out.raised = "none"
            /\ last.out.args.stdout_redir = VStr(last.form.file)
            /\ last.out.args.redir_type = VStr(last.form.mode)
            /\ last.out.args.verb = WithoutRedirect.verb
            /\ last.out.args.path = WithoutRedirect.path
            /\ last.out.args.api_args = WithoutRedirect.api_args
            /\ last.out.args.cmd_args = WithoutRedirect.cmd_args

\* the body a request of the shell sent, read back as a mapping
SentBody == json_loads(last.out.request.sent.data.v).v.v

GivenNames == {last.cmd.given[i][1] : i \in 1..Len(last.cmd.given)}

\* C22: a request of the shell whose line names a parameter that is also
\* one of the vars of the environment sends the value of the line; the
\* vars only supply the names the line did not give
C22_ExplicitParamWins ==
  (last.op = "parse_cmd" /\ last.cmd.kind = "request" /\ Len(last.cmd.given) > 0)
    => /\ last.out.request # NoRequest
       /\ last.out.request.sent.hasData
       /\ \A i \in 1..Len(last.cmd.given) :
            /\ DictHas(SentBody, last.cmd.given[i][1])
            /\ DictGet(SentBody, last.cmd.given[i][1]) = VStr(last.cmd.given[i][2])
       /\ \A i \in 1..Len(last.env.vars) :
            last.env.vars[i][1] \notin GivenNames
              => /\ DictHas(SentBody, last.env.vars[i][1])
                 /\ DictGet(SentBody, last.env.vars[i][1]) = last.env.vars[i][2]

FailingKinds ==
  {"status_error", "transport_error", "unknown_command", "out_of_bounds", "unknown_variable",
   "bad_flag"}

\* C23: after a line that ends in an HTTP status error, a transport error or
\* an error of the shell grammar the loop is at its prompt again: no such
\* line ends the session
C23_ErrorsKeepSession ==
  (last.op = "parse_cmd" /\ last.cmd.kind \in FailingKinds) => session = "reading"

\* C24: on 'quit' parse_cmd returns, and what it returns is false; the loop
\* reads no further line and the session is stopped
C24_QuitStops ==
  (last.op = "parse_cmd" /\ last.cmd.kind = "quit")
    => /\ last.out.raised = "none"
       /\ last.out.returned = "false"
       /\ session = "stopped"

CdSucceeded == last.op = "cd" /\ last.out.raised = "none"

\* C25: after a cd that succeeds last_cwd is what cwd was just before it, so
\* 'cd -' makes the path before the current one, and a second 'cd -' brings
\* back the path the first one left; a cd that fails changes neither
C25_LastCwdFollows ==
  /\ [](/\ CdSucceeded => env.last_cwd = last.cwd /\ env.cwd = last.out.path
        /\ (CdSucceeded /\ last.input.text = S_dash) => env.cwd = last.last_cwd
        /\ (last.op = "cd" /\ last.out.raised # "none")
             => env.cwd = last.cwd /\ env.last_cwd = last.last_cwd)
  /\ [][(CdSucceeded /\ last.input.text = S_dash
           /\ last'.op = "cd" /\ last'.input.text = S_dash)
          => env'.cwd = last.cwd /\ env'.last_cwd = last.last_cwd]_vars

C25_Witness ==
  /\ CdSucceeded /\ last.input.text = S_dash
  /\ last.cwd = << "/", "b" >> /\ last.last_cwd = << "/", "a", "/", "b", "/" >>
  /\ env.cwd = << "/", "a", "/", "b", "/" >> /\ env.last_cwd = << "/", "b" >>

Segments(path) == {Split(path, << "/" >>)[i] : i \in 1..Len(Split(path, << "/" >>))}

\* C26: whatever cd commands were given, cwd begins with one '/', holds no
\* '//' and has no segment '.' or '..'
C26_CwdAbsolute ==
  /\ Len(env.cwd) > 0
  /\ env.cwd[1] = "/"
  /\ ~Contains(env.cwd, << "/", "/" >>)
  /\ Segments(env.cwd) \cap {S_dot, S_dotdot} = {}

C26_Witness ==
  /\ CdSucceeded
  /\ last.input.text = << "a", "/", ".", "/", ".", ".", "/", "b", "/", "/" >>
  /\ last.cwd = << "/", "a" >>
  /\ env.cwd = << "/", "a", "/", "b", "/" >>

\* C30: parse_path gives the same for an input other than '' and '-' whether
\* or not the current path ends in a slash; '..' against '/a/b/' is '/a'
C30_TrailingSlashIgnored ==
  last.op = "parse_path_both" => last.slashed = last.plain

\* C27: whatever calls of set_base_url were made, the scheme of base_url is
\* http or https and its port is an integer of the range set_port accepts,
\* and a call that fails leaves base_url as it was before the call
C27_BaseUrlValid ==
  /\ [](/\ base_url.scheme \in {S_http, S_https}
        /\ base_url.port.kind = "int"
        /\ base_url.port.n >= 0 /\ base_url.port.n <= 65535)
  /\ [][(last'.op = "set_base_url" /\ last'.raised # "none") => base_url' = base_url]_vars

\* the response of the last call carried a Set-Cookie header
SetCookieSeen(resp) ==
  \E i \in 1..Len(resp.headers) : Lower(resp.headers[i][1]) = S_setCookie

\* C28: the cookie cache changes only in a call of request that was answered
\* with a response carrying a Set-Cookie header (set_base_url, set_basic_auth,
\* build_url and requests answered without one leave it as it was), and every
\* name the cache holds before a step it holds after it
C28_JarChangesOnSetCookie ==
  [][/\ cookies' # cookies =>
          /\ last'.op = "request"
          /\ last'.out.delivered
          /\ SetCookieSeen(Response(last'.reply))
      /\ \A i \in 1..Len(cookies) : DictHas(cookies', cookies[i][1])]_vars

\* a request answered without Set-Cookie by a client whose cache holds two names
C28_Witness ==
  /\ last.op = "request"
  /\ last.out.delivered
  /\ ~SetCookieSeen(Response(last.reply))
  /\ Len(last.jar) = 2
  /\ cookies = last.jar

\* the last call was a request answered with a response that claims JSON and
\* whose body is no JSON
UndecodableJson ==
  /\ last.op = "request"
  /\ last.out.delivered
  /\ StartsWith(last.reply.content_type, S_json)
  /\ ~last.reply.ok

\* the charset the content type names, if the body is decoded with one, is
\* one bytes.decode knows
CharsetDecodes(r) ==
  DecodeData(r.text, get_header(Response(r).headers, S_contentType)).raised = "none"

\* every cookie the response set is in the cache with the value it was set to
JarUpdated ==
  \A i \in 1..Len(last.reply.set_cookies) :
    /\ DictHas(cookies, last.reply.set_cookies[i][1])
    /\ DictGet(cookies, last.reply.set_cookies[i][1]) = last.reply.set_cookies[i][2]

\* C29 as stated: a response whose content type begins with application/json
\* and whose body is no JSON makes request fail with the decode error
\* (ValueError), whatever the status, with the cookies of the response stored
C29_DecodeErrorAlways ==
  UndecodableJson => (last.out.raised = "ValueError" /\ JarUpdated)

\* C29: a response whose content type begins with application/json and whose
\* body is no JSON makes request fail before the status is classified,
\* whatever the status: never with an HTTP status error, with the decode
\* error (ValueError) when the charset decoding of the body succeeded and with
\* the error of that decoding otherwise, and the cookies of the response are
\* stored in either case
C29_DecodePrecedesStatus ==
  UndecodableJson =>
    /\ last.out.raised \notin HttpErrors \cup {"none"}
    /\ CharsetDecodes(last.reply) => last.out.raised = "ValueError"
    /\ ~CharsetDecodes(last.reply) => last.out.raised = "LookupError"
    /\ JarUpdated

\* a status 500 whose body is no JSON, setting a cookie the cache did not hold
C29_Witness ==
  /\ UndecodableJson
  /\ last.reply.status = 500
  /\ last.reply.text = S_oops
  /\ last.jar = << >>
  /\ last.out.raised = "ValueError"
  /\ cookies = << << << "a" >>, << "1" >> >> >>

=============================================================================
